---- MODULE Spec2Model ----
(***************************************************************************)
(* Model of the schedule verifier of bus_opt: the standalone checker       *)
(* src/test/test.py (build_index, the six checks, main) and the            *)
(* reference-comparison checker src/test/test_case.py (index_payload,      *)
(* index_expected, build_label_mapping, check_flow, check_case).           *)
(*                                                                         *)
(* A result payload and a reference case are built record by record, then  *)
(* one of the two verifiers runs on them.  Python dicts are association    *)
(* lists in insertion order, Python strings that are compared, sorted or   *)
(* searched are sequences of code points, and floats are counted in units  *)
(* of 5e-7 so that the 1e-6 tolerance is exactly two units.                *)
(*                                                                         *)
(* The second half models the constraint builders of src/python: the       *)
(* multi-bus EVBusModel (ev_bus_refactored_1.py, ev_bus_refactored_2.py)   *)
(* and the single-bus scripts bus_test.py, example_cuda.py and             *)
(* power_gpt5pro.py.  The solver is a search that fixes the indicator      *)
(* variables slot by slot and the boarding variables passenger by          *)
(* passenger, keeping every constraint that the builder added satisfied,   *)
(* so that the complete assignments it reaches are exactly the feasible    *)
(* solutions of the built model.  The squared-wait surrogates and the      *)
(* parallel sweep of src/run_case_2.py follow at the end.                  *)
(***************************************************************************)
EXTENDS Integers, Sequences, FiniteSets, TLC

VARIABLES payload, expected, pc, idx, errors, verdict, case_errors,
          cfg, data, prob

vars == <<payload, expected, pc, idx, errors, verdict, case_errors,
          cfg, data, prob>>

(***************************************************************************)
(* The verifier runs have no constraint model: the three variables of the  *)
(* builders stay empty.                                                    *)
(***************************************************************************)
NoSolverModel == cfg = <<>> /\ data = <<>> /\ prob = <<>>

(***************************************************************************)
(* Bounds of the model.                                                    *)
(***************************************************************************)
MaxDeps == 2
MaxAsg == 2

(***************************************************************************)
(* Value domains of the payloads.                                          *)
(***************************************************************************)
Buses == {0, 1}
Times == 0..3
Taus == 0..2
Terminals == {"CEI", "T2"}

(***************************************************************************)
(* Python built-ins used by the verifiers.                                 *)
(***************************************************************************)

\* dict: an association list <<key, value>> in insertion order
DictHas(d, k) == \E i \in 1..Len(d) : d[i][1] = k

DictGet(d, k) == d[CHOOSE i \in 1..Len(d) : d[i][1] = k][2]

DictGetOr(d, k, default) == IF DictHas(d, k) THEN DictGet(d, k) ELSE default

DictPut(d, k, v) ==
    IF DictHas(d, k)
    THEN [i \in 1..Len(d) |-> IF d[i][1] = k THEN <<k, v>> ELSE d[i]]
    ELSE Append(d, <<k, v>>)

DictKeys(d) == [i \in 1..Len(d) |-> d[i][1]]

\* tuple and string comparison: lexicographic, a proper prefix is smaller
RECURSIVE LexLess(_, _)
LexLess(a, b) ==
    IF b = <<>> THEN FALSE
    ELSE IF a = <<>> THEN TRUE
    ELSE IF Head(a) < Head(b) THEN TRUE
    ELSE IF Head(a) > Head(b) THEN FALSE
    ELSE LexLess(Tail(a), Tail(b))

\* sorted(): a stable sort of <<key, value>> pairs by key
RECURSIVE InsertKeyed(_, _)
InsertKeyed(s, kv) ==
    IF s = <<>> THEN <<kv>>
    ELSE IF LexLess(kv[1], Head(s)[1]) THEN <<kv>> \o s
    ELSE <<Head(s)>> \o InsertKeyed(Tail(s), kv)

RECURSIVE SortKeyed(_)
SortKeyed(s) ==
    IF s = <<>> THEN <<>>
    ELSE InsertKeyed(SortKeyed(SubSeq(s, 1, Len(s) - 1)), s[Len(s)])

\* "CEI" < "T2" in Python's string order
TermOrd(term) == IF term = "CEI" THEN 0 ELSE 1

\* the terminal a bus reaches after leaving term
Opposite(term) == IF term = "CEI" THEN "T2" ELSE "CEI"

RECURSIVE SumSeq(_)
SumSeq(s) == IF s = <<>> THEN 0 ELSE SumSeq(SubSeq(s, 1, Len(s) - 1)) + s[Len(s)]

\* number of indexes of s whose element satisfies nothing but equality with x
CountIn(s, x) == Cardinality({i \in 1..Len(s) : s[i] = x})

\* concatenation of a sequence of sequences
RECURSIVE Flatten(_)
Flatten(ss) == IF ss = <<>> THEN <<>> ELSE Head(ss) \o Flatten(Tail(ss))

(***************************************************************************)
(* Violations.  One record shape for every message: tag is the bracketed   *)
(* tag, msg the fixed words of the message, and the fields a message does  *)
(* not print hold a filler.                                                *)
(***************************************************************************)
Err(tag, msg, term, bus, p, t, x, y) ==
    [tag |-> tag, msg |-> msg, term |-> term, bus |-> bus, p |-> p, t |-> t,
     x |-> x, y |-> y]

HasTag(errs, tag) == \E i \in 1..Len(errs) : errs[i].tag = tag

\* -10**9, the time before every departure
NEG_BIG == -1000000000

\* a float is counted in units of 5e-7: 1.0 is UNITS_PER_ONE units
UNITS_PER_ONE == 2000000

\* 1e-6 in units of 5e-7
TOLERANCE == 2

\* an objective: None, NaN, +-Infinity or a number v (in units of 5e-7)
ObjNone == [kind |-> "none", v |-> 0]

ObjNum(v) == [kind |-> "num", v |-> v]

(***************************************************************************)
(* src/test/test.py: build_index                                           *)
(***************************************************************************)

\* arrivals[term][rec["p"]] = rec["arr"] for every record, a later record wins
RECURSIVE arrivals_dict(_)
arrivals_dict(recs) ==
    IF recs = <<>> THEN <<>>
    ELSE LET rec == recs[Len(recs)]
         IN DictPut(arrivals_dict(SubSeq(recs, 1, Len(recs) - 1)), rec.p, rec.arr)

\* initpos[rec["bus"]] = rec["terminal"]
RECURSIVE initpos_dict(_)
initpos_dict(recs) ==
    IF recs = <<>> THEN <<>>
    ELSE LET rec == recs[Len(recs)]
         IN DictPut(initpos_dict(SubSeq(recs, 1, Len(recs) - 1)), rec.bus, rec.terminal)

\* deps[(term, bus)].add(t)
RECURSIVE deps_dict(_)
deps_dict(recs) ==
    IF recs = <<>> THEN <<>>
    ELSE LET rec == recs[Len(recs)]
             d == deps_dict(SubSeq(recs, 1, Len(recs) - 1))
             k == <<rec.terminal, rec.bus>>
         IN DictPut(d, k, DictGetOr(d, k, {}) \cup {rec.t})

\* all_dep_times_by_bus[bus].append((t, term))
RECURSIVE dep_times_by_bus(_)
dep_times_by_bus(recs) ==
    IF recs = <<>> THEN <<>>
    ELSE LET rec == recs[Len(recs)]
             d == dep_times_by_bus(SubSeq(recs, 1, Len(recs) - 1))
         IN DictPut(d, rec.bus, Append(DictGetOr(d, rec.bus, <<>>), <<rec.t, rec.terminal>>))

\* list.sort() / sorted() of (t, term) tuples
sort_tuples(seq) ==
    LET keyed == [i \in 1..Len(seq) |-> <<(<<seq[i][1], TermOrd(seq[i][2])>>), seq[i]>>]
        s == SortKeyed(keyed)
    IN [i \in 1..Len(seq) |-> s[i][2]]

\* asg[(term, bus, t)].append(p)
RECURSIVE asg_dict(_)
asg_dict(recs) ==
    IF recs = <<>> THEN <<>>
    ELSE LET rec == recs[Len(recs)]
             d == asg_dict(SubSeq(recs, 1, Len(recs) - 1))
             k == <<rec.terminal, rec.bus, rec.t>>
         IN DictPut(d, k, Append(DictGetOr(d, k, <<>>), rec.p))

\* payload["meta"], payload["arrivals"], ...: a KeyError for an absent key
build_index_raises(pl) ==
    \E f \in {"meta", "arrivals", "initial_positions", "departures", "assignments"} :
        f \notin DOMAIN pl

build_index(pl) ==
    LET by_bus == dep_times_by_bus(pl.departures)
    IN [tau |-> pl.meta.tau, cap |-> pl.meta.capacity, wmax |-> pl.meta.w_max,
        T_end |-> pl.meta.T_end,
        arrivals |-> [term \in Terminals |-> arrivals_dict(pl.arrivals[term])],
        initpos |-> initpos_dict(pl.initial_positions),
        deps |-> deps_dict(pl.departures),
        dep_seq |-> [i \in 1..Len(by_bus) |-> <<by_bus[i][1], sort_tuples(by_bus[i][2])>>],
        asg |-> asg_dict(pl.assignments),
        asg_list |-> [i \in 1..Len(pl.assignments) |->
                        <<pl.assignments[i].terminal, pl.assignments[i].p,
                          pl.assignments[i].bus, pl.assignments[i].t,
                          pl.assignments[i].wait>>],
        objective |-> pl.objective,
        status |-> pl.status]

(***************************************************************************)
(* src/test/test.py: the six checks.  Each takes the index and the errors  *)
(* list and returns the list with its violations appended.                 *)
(***************************************************************************)

\* seen[p] counted over both terminals
seen_count_any_terminal(ix, term, p) ==
    SumSeq([i \in 1..Len(ix.asg) |-> CountIn(ix.asg[i][2], p)])

\* seen[p] after the loop over idx["asg"].items() for one terminal
seen_count(ix, term, p) ==
    SumSeq([i \in 1..Len(ix.asg) |->
              IF ix.asg[i][1][1] = term THEN CountIn(ix.asg[i][2], p) ELSE 0])

unique_errors(ix, term) ==
    LET ps == DictKeys(ix.arrivals[term])
    IN Flatten([i \in 1..Len(ps) |->
                 IF seen_count(ix, term, ps[i]) # 1
                 THEN <<Err("[F1/F4]", "assigned n times (expected 1)", term, -1, ps[i], -1,
                            seen_count(ix, term, ps[i]), -1)>>
                 ELSE <<>>])

check_unique_assignment(ix, errs) ==
    errs \o unique_errors(ix, "CEI") \o unique_errors(ix, "T2")

\* the lookup with the terminal ignored
no_matching_departure_any_terminal(ix, term, bus, t) ==
    \A tm \in Terminals : t \notin DictGetOr(ix.deps, <<tm, bus>>, {})

\* t not in idx["deps"][(term, bus)]: a missing key reads as the empty set
no_matching_departure(ix, term, bus, t) ==
    t \notin DictGetOr(ix.deps, <<term, bus>>, {})

check_assignment_link_to_departure(ix, errs) ==
    errs \o Flatten([i \in 1..Len(ix.asg_list) |->
        LET a == ix.asg_list[i]
        IN IF no_matching_departure(ix, a[1], a[3], a[4])
           THEN <<Err("[Link x->bd]", "Assignment without matching departure",
                      a[1], a[3], a[2], a[4], -1, -1)>>
           ELSE <<>>])

\* idx["deps"] is a defaultdict: reading a missing key inserts it
RECURSIVE deps_after_link(_, _)
deps_after_link(deps, asg_list) ==
    IF asg_list = <<>> THEN deps
    ELSE LET a == Head(asg_list)
             k == <<a[1], a[3]>>
         IN deps_after_link(IF DictHas(deps, k) THEN deps ELSE Append(deps, <<k, {}>>),
                            Tail(asg_list))

\* the comparison with a full bus rejected as well
capacity_reached(n, cap) == n >= cap

capacity_exceeded(n, cap) == n > cap

check_capacity(ix, errs) ==
    errs \o Flatten([i \in 1..Len(ix.asg) |->
        LET key == ix.asg[i][1]
            plist == ix.asg[i][2]
        IN IF capacity_exceeded(Len(plist), ix.cap)
           THEN <<Err("[F3/F6]", "Capacity exceeded", key[1], key[2], -1, key[3],
                      Len(plist), ix.cap)>>
           ELSE <<>>])

\* the bound with a wait of exactly w_max rejected as well
wait_at_least(wait, wmax) == wait >= wmax

wait_too_long(wait, wmax) == wait > wmax

\* the window with the cutoff slot itself rejected as well
at_or_beyond_last_window(t, Tend, tau) == t >= Tend - tau

beyond_last_window(t, Tend, tau) == t > Tend - tau

wait_errors(ix, a) ==
    LET term == a[1]
        p == a[2]
        t == a[4]
        wait == a[5]
    IN IF ~DictHas(ix.arrivals[term], p)
       THEN <<Err("[ARR]", "Missing arrival", term, -1, p, -1, -1, -1)>>
       ELSE LET arr == DictGet(ix.arrivals[term], p)
            IN (IF wait # t - arr
                THEN <<Err("[WAIT]", "Wrong wait", term, -1, p, t, wait, t - arr)>>
                ELSE <<>>)
               \o (IF wait < 0
                   THEN <<Err("[ARR]", "Negative wait", term, -1, p, t, arr, -1)>>
                   ELSE <<>>)
               \o (IF wait_too_long(wait, ix.wmax)
                   THEN <<Err("[T3/T4]", "Wait > w_max", term, -1, p, -1, wait, ix.wmax)>>
                   ELSE <<>>)
               \o (IF beyond_last_window(t, ix.T_end, ix.tau)
                   THEN <<Err("[Last-window]", "Departure beyond T_end - tau", "", -1, -1, t,
                              ix.T_end - ix.tau, -1)>>
                   ELSE <<>>)

check_wait_and_windows(ix, errs) ==
    errs \o Flatten([i \in 1..Len(ix.asg_list) |-> wait_errors(ix, ix.asg_list[i])])

\* the gate with the boundary slot t = t_prev + tau rejected as well
still_traveling_inclusive(t, cur_free_time) == t <= cur_free_time

\* t < cur_free_time: the bus is still travelling
still_traveling(t, cur_free_time) == t < cur_free_time

\* term != cur_term: the bus is not at the terminal it departs from
not_at_terminal(term, cur_term) == term # cur_term

\* one iteration of the loop over seq_sorted; d = (t, term)
bus_flow_iter(st, bus, tau, d) ==
    LET t == d[1]
        term == d[2]
    IN [last_t |-> t,
        cur_free_time |-> t + tau,
        cur_term |-> Opposite(term),
        errors |-> st.errors
            \o (IF t = st.last_t
                THEN <<Err("[M3]", "multiple departures at same t", "", bus, -1, t, -1, -1)>>
                ELSE <<>>)
            \o (IF still_traveling(t, st.cur_free_time)
                THEN <<Err("[FLOW]", "departs while still traveling", "", bus, -1, t,
                           st.cur_free_time, -1)>>
                ELSE <<>>)
            \o (IF not_at_terminal(term, st.cur_term)
                THEN <<Err("[F7/F8]", "departs but current terminal is", term, bus, -1, t,
                           TermOrd(st.cur_term), -1)>>
                ELSE <<>>)]

RECURSIVE bus_flow_loop(_, _, _, _)
bus_flow_loop(st, bus, tau, seq) ==
    IF seq = <<>> THEN st
    ELSE bus_flow_loop(bus_flow_iter(st, bus, tau, Head(seq)), bus, tau, Tail(seq))

\* the loop state with the configured initial position ignored
bus_flow_start_inferred(ix, bus, seq_sorted, errs) ==
    [last_t |-> NEG_BIG, cur_free_time |-> 0, cur_term |-> seq_sorted[1][2], errors |-> errs]

\* the loop state of one bus before its first departure
bus_flow_start(ix, bus, seq_sorted, errs) ==
    [last_t |-> NEG_BIG,
     cur_free_time |-> 0,
     cur_term |-> IF DictHas(ix.initpos, bus) THEN DictGet(ix.initpos, bus)
                  ELSE seq_sorted[1][2],
     errors |-> errs]

\* the first n buses of dep_seq, in the dict's order
RECURSIVE bus_flow_buses(_, _, _)
bus_flow_buses(ix, errs, n) ==
    IF n = 0 THEN errs
    ELSE LET before == bus_flow_buses(ix, errs, n - 1)
             bus == ix.dep_seq[n][1]
             seq_sorted == sort_tuples(ix.dep_seq[n][2])
         IN bus_flow_loop(bus_flow_start(ix, bus, seq_sorted, before), bus, ix.tau,
                          seq_sorted).errors

check_bus_flow(ix, errs) == bus_flow_buses(ix, errs, Len(ix.dep_seq))

\* sum of the recorded waits, in units of 5e-7
sum_of_waits(ix) == SumSeq([i \in 1..Len(ix.asg_list) |-> ix.asg_list[i][5]]) * UNITS_PER_ONE

Abs(x) == IF x < 0 THEN -x ELSE x

\* the comparison with no tolerance
objective_differs(obj, s) ==
    \/ obj.kind \in {"nan", "inf"}
    \/ obj.kind = "num" /\ obj.v # s

\* not math.isfinite(objective) or abs(objective - s) > 1e-6
objective_mismatch(obj, s) ==
    \/ obj.kind \in {"nan", "inf"}
    \/ obj.kind = "num" /\ Abs(obj.v - s) > TOLERANCE

check_objective(ix, errs) ==
    IF ix.objective.kind = "none" THEN errs
    ELSE IF objective_mismatch(ix.objective, sum_of_waits(ix))
         THEN Append(errs, Err("[OBJ]", "objective reported but recomputed", "", -1, -1, -1,
                               ix.objective.v, sum_of_waits(ix)))
         ELSE errs

\* the six checks with the run ended by the first one that reports something
main_errors_fail_fast(ix) ==
    IF check_unique_assignment(ix, <<>>) # <<>> THEN check_unique_assignment(ix, <<>>)
    ELSE IF check_assignment_link_to_departure(ix, <<>>) # <<>>
         THEN check_assignment_link_to_departure(ix, <<>>)
    ELSE IF check_capacity(ix, <<>>) # <<>> THEN check_capacity(ix, <<>>)
    ELSE IF check_wait_and_windows(ix, <<>>) # <<>> THEN check_wait_and_windows(ix, <<>>)
    ELSE IF check_bus_flow(ix, <<>>) # <<>> THEN check_bus_flow(ix, <<>>)
    ELSE check_objective(ix, <<>>)

\* the errors list of main after the six checks, in the order main calls them
main_errors(ix) ==
    check_objective(ix,
      check_bus_flow(ix,
        check_wait_and_windows(ix,
          check_capacity(ix,
            check_assignment_link_to_departure(ix,
              check_unique_assignment(ix, <<>>))))))

(***************************************************************************)
(* src/test/test_case.py: strings.  A string is the sequence of its code   *)
(* points.                                                                 *)
(***************************************************************************)

\* str(n) of an int n >= 0: its decimal digits
RECURSIVE Digits(_)
Digits(n) == IF n < 10 THEN <<48 + n>> ELSE Digits(n \div 10) \o <<48 + (n % 10)>>

\* norm_pid of a JSON number
norm_pid(x) == Digits(x)

\* norm_pid of a JSON string: str() of a str is the string itself
norm_label(x) == x

\* str.upper(): a..z (97..122) become A..Z (65..90)
Upper(str) == [i \in 1..Len(str) |-> IF str[i] >= 97 /\ str[i] <= 122 THEN str[i] - 32 ELSE str[i]]

\* sub in str
Contains(sub, str) ==
    \E i \in 0..(Len(str) - Len(sub)) : SubSeq(str, i + 1, i + Len(sub)) = sub

STR_INF == <<73, 78, 70>>

STR_NO == <<78, 79>>

(***************************************************************************)
(* src/test/test_case.py: index_payload, index_expected                    *)
(***************************************************************************)

\* list.sort(key=lambda e: (e["t"], e["bus"], e["terminal"])), stable
sort_events(recs) ==
    LET keyed == [i \in 1..Len(recs) |->
                    <<(<<recs[i].t, recs[i].bus, TermOrd(recs[i].terminal)>>), recs[i]>>]
        s == SortKeyed(keyed)
    IN [i \in 1..Len(recs) |-> s[i][2]]

\* asg_by_event[(terminal, bus, t)].append(p)
RECURSIVE asg_by_event_dict(_)
asg_by_event_dict(recs) ==
    IF recs = <<>> THEN <<>>
    ELSE LET rec == recs[Len(recs)]
             d == asg_by_event_dict(SubSeq(recs, 1, Len(recs) - 1))
             k == <<rec.terminal, rec.bus, rec.t>>
         IN DictPut(d, k, Append(DictGetOr(d, k, <<>>), rec.p))

\* arr[term][norm_pid(r["p"])] = int(r["arr"])
RECURSIVE case_arrivals_dict(_)
case_arrivals_dict(recs) ==
    IF recs = <<>> THEN <<>>
    ELSE LET rec == recs[Len(recs)]
         IN DictPut(case_arrivals_dict(SubSeq(recs, 1, Len(recs) - 1)),
                    norm_pid(rec.p), rec.arr)

\* payload.get(f, default): a JSON object is a record, an absent key an absent field
PayloadGet(pl, f, default) == IF f \in DOMAIN pl THEN pl[f] ELSE default

index_payload(pl) ==
    LET assignments == PayloadGet(pl, "assignments", <<>>)
        departures == PayloadGet(pl, "departures", <<>>)
        arrivals == PayloadGet(pl, "arrivals", [term \in Terminals |-> <<>>])
        asg == [i \in 1..Len(assignments) |->
                  [terminal |-> assignments[i].terminal,
                   p |-> norm_pid(assignments[i].p),
                   bus |-> assignments[i].bus,
                   t |-> assignments[i].t]]
    IN [deps |-> sort_events([i \in 1..Len(departures) |->
                    [terminal |-> departures[i].terminal,
                     bus |-> departures[i].bus,
                     t |-> departures[i].t]]),
        asg |-> asg,
        asg_by_event |-> asg_by_event_dict(asg),
        arrivals |-> [term \in Terminals |-> case_arrivals_dict(arrivals[term])],
        meta |-> PayloadGet(pl, "meta", <<>>),
        status |-> Upper(PayloadGet(pl, "status", <<>>)),
        objective |-> PayloadGet(pl, "objective", ObjNone),
        init |-> PayloadGet(pl, "initial_positions", <<>>)]

\* arr[term][norm_pid(k)] = int(v) for the items of the reference's arrivals object
RECURSIVE expected_arrivals_dict(_)
expected_arrivals_dict(items) ==
    IF items = <<>> THEN <<>>
    ELSE LET it == items[Len(items)]
         IN DictPut(expected_arrivals_dict(SubSeq(items, 1, Len(items) - 1)),
                    norm_label(it[1]), it[2])

index_expected(ex) ==
    LET asg == [i \in 1..Len(ex.expected_assignments) |->
                  [terminal |-> ex.expected_assignments[i].terminal,
                   p |-> norm_label(ex.expected_assignments[i].p),
                   bus |-> ex.expected_assignments[i].bus,
                   t |-> ex.expected_assignments[i].t]]
    IN [deps |-> sort_events(ex.expected_departures),
        asg |-> asg,
        asg_by_event |-> asg_by_event_dict(asg),
        arrivals |-> [term \in Terminals |-> expected_arrivals_dict(ex.arrivals[term])],
        meta |-> ex.meta,
        init |-> ex.init,
        infeasible |-> ex.infeasible,
        expected_objective |-> ex.expected_objective]

(***************************************************************************)
(* src/test/test_case.py: build_label_mapping, assert_equal_sets           *)
(***************************************************************************)

\* sorted() of a list of strings
sort_strings(seq) ==
    LET s == SortKeyed([i \in 1..Len(seq) |-> <<seq[i], seq[i]>>])
    IN [i \in 1..Len(seq) |-> s[i][2]]

\* sorted(set(exp keys) | set(got keys)) of (terminal, bus, t) keys
sorted_event_keys(exp_by_event, got_by_event) ==
    LET ek == DictKeys(exp_by_event)
        gk == SelectSeq(DictKeys(got_by_event), LAMBDA k : ~DictHas(exp_by_event, k))
        all == ek \o gk
        s == SortKeyed([i \in 1..Len(all) |->
                          <<(<<TermOrd(all[i][1]), all[i][2], all[i][3]>>), all[i]>>])
    IN [i \in 1..Len(all) |-> s[i][2]]

\* the loop body that keeps the first partner and reports no conflict
map_pair_first_wins(st, lab, pid) ==
    [mapping |-> IF DictHas(st.mapping, lab) THEN st.mapping ELSE DictPut(st.mapping, lab, pid),
     inverse |-> IF DictHas(st.inverse, pid) THEN st.inverse ELSE DictPut(st.inverse, pid, lab),
     errors |-> st.errors]

\* the body of the loop over zip(e_list, g_list)
map_pair(st, lab, pid) ==
    [mapping |-> DictPut(st.mapping, lab, pid),
     inverse |-> DictPut(st.inverse, pid, lab),
     errors |-> st.errors
        \o (IF DictHas(st.mapping, lab) /\ DictGet(st.mapping, lab) # pid
            THEN <<Err("[MAP]", "label -> two pids", "", -1, lab, -1, -1, -1)>>
            ELSE <<>>)
        \o (IF DictHas(st.inverse, pid) /\ DictGet(st.inverse, pid) # lab
            THEN <<Err("[MAP]", "pid -> two labels", "", -1, pid, -1, -1, -1)>>
            ELSE <<>>)]

RECURSIVE map_zip(_, _, _)
map_zip(st, e_list, g_list) ==
    IF e_list = <<>> \/ g_list = <<>> THEN st
    ELSE map_zip(map_pair(st, Head(e_list), Head(g_list)), Tail(e_list), Tail(g_list))

\* the loop body without the continue: the labels of a group are paired with
\* the ids as far as zip goes even when the sizes differ
map_group_pairs_anyway(st, exp_by_event, got_by_event, key) ==
    LET e_list == sort_strings(DictGetOr(exp_by_event, key, <<>>))
        g_list == sort_strings(DictGetOr(got_by_event, key, <<>>))
    IN IF Len(e_list) # Len(g_list)
       THEN map_zip([st EXCEPT !.errors = Append(@,
                Err("[ASSIGN-COUNT]", "event expected n got m", key[1], key[2], <<>>, key[3],
                    Len(e_list), Len(g_list)))], e_list, g_list)
       ELSE map_zip(st, e_list, g_list)

\* the body of the loop over sorted(keys)
map_group(st, exp_by_event, got_by_event, key) ==
    LET e_list == sort_strings(DictGetOr(exp_by_event, key, <<>>))
        g_list == sort_strings(DictGetOr(got_by_event, key, <<>>))
    IN IF Len(e_list) # Len(g_list)
       THEN [st EXCEPT !.errors = Append(@,
                Err("[ASSIGN-COUNT]", "event expected n got m", key[1], key[2], <<>>, key[3],
                    Len(e_list), Len(g_list)))]
       ELSE map_zip(st, e_list, g_list)

RECURSIVE map_groups(_, _, _, _)
map_groups(st, exp_by_event, got_by_event, keys) ==
    IF keys = <<>> THEN st
    ELSE map_groups(map_group(st, exp_by_event, got_by_event, Head(keys)),
                    exp_by_event, got_by_event, Tail(keys))

\* returns the record [mapping, inverse, errors]
build_label_mapping(exp_idx, got_idx) ==
    map_groups([mapping |-> <<>>, inverse |-> <<>>, errors |-> <<>>],
               exp_idx.asg_by_event, got_idx.asg_by_event,
               sorted_event_keys(exp_idx.asg_by_event, got_idx.asg_by_event))

\* the violations assert_equal_sets appends
assert_equal_sets(got, exp, what) ==
    IF sort_events(got) # sort_events(exp)
    THEN <<Err(what, "mismatch", "", -1, <<>>, -1, -1, -1)>>
    ELSE <<>>

(***************************************************************************)
(* src/test/test_case.py: check_flow                                       *)
(***************************************************************************)

\* {int(d["bus"]): d["terminal"] for d in exp_init}
RECURSIVE case_init_dict(_)
case_init_dict(recs) ==
    IF recs = <<>> THEN <<>>
    ELSE LET rec == recs[Len(recs)]
         IN DictPut(case_init_dict(SubSeq(recs, 1, Len(recs) - 1)), rec.bus, rec.terminal)

\* t < busy_until[b]
in_transit(t, busy_until) == t < busy_until

\* term != cur_term[b]
wrong_location(term, cur_term) == term # cur_term

\* one iteration of the loop over deps
flow_iter(st, tau, d) ==
    LET b == d.bus
        term == d.terminal
        t == d.t
        cur == DictGetOr(st.cur_term, b, term)
        busy == DictGetOr(st.busy_until, b, NEG_BIG)
    IN [busy_until |-> DictPut(st.busy_until, b, t + tau),
        cur_term |-> DictPut(st.cur_term, b, Opposite(term)),
        errors |-> st.errors
            \o (IF in_transit(t, busy)
                THEN <<Err("[FLOW]", "departs while traveling", "", b, <<>>, t, busy, -1)>>
                ELSE <<>>)
            \o (IF wrong_location(term, cur)
                THEN <<Err("[LOC]", "departs but at", term, b, <<>>, -1, TermOrd(cur), -1)>>
                ELSE <<>>)]

RECURSIVE flow_loop(_, _, _)
flow_loop(st, tau, deps) ==
    IF deps = <<>> THEN st
    ELSE flow_loop(flow_iter(st, tau, Head(deps)), tau, Tail(deps))

\* the loop state before the first departure
flow_start(exp_init, errs) ==
    LET init == case_init_dict(exp_init)
    IN [busy_until |-> [i \in 1..Len(init) |-> <<init[i][1], NEG_BIG>>],
        cur_term |-> init,
        errors |-> errs]

check_flow(exp_meta, exp_init, deps, errs) ==
    flow_loop(flow_start(exp_init, errs), exp_meta.tau, deps).errors

(***************************************************************************)
(* src/test/test_case.py: check_case                                       *)
(***************************************************************************)

\* "INF" not in st and "NO" not in st
status_not_infeasible(st) == ~Contains(STR_INF, st) /\ ~Contains(STR_NO, st)

\* the comparison of tau, capacity, w_max and T_end
case_meta_errors(exp_idx, got_idx) ==
    (IF "tau" \in DOMAIN got_idx.meta /\ exp_idx.meta.tau # got_idx.meta.tau
     THEN <<Err("[META]", "tau", "", -1, <<>>, -1, exp_idx.meta.tau, got_idx.meta.tau)>>
     ELSE <<>>)
    \o (IF "capacity" \in DOMAIN got_idx.meta /\ exp_idx.meta.capacity # got_idx.meta.capacity
        THEN <<Err("[META]", "capacity", "", -1, <<>>, -1, exp_idx.meta.capacity,
                   got_idx.meta.capacity)>>
        ELSE <<>>)
    \o (IF "w_max" \in DOMAIN got_idx.meta /\ exp_idx.meta.w_max # got_idx.meta.w_max
        THEN <<Err("[META]", "w_max", "", -1, <<>>, -1, exp_idx.meta.w_max,
                   got_idx.meta.w_max)>>
        ELSE <<>>)
    \o (IF "T_end" \in DOMAIN got_idx.meta /\ exp_idx.meta.T_end # got_idx.meta.T_end
        THEN <<Err("[META]", "T_end", "", -1, <<>>, -1, exp_idx.meta.T_end,
                   got_idx.meta.T_end)>>
        ELSE <<>>)

\* got_asg_labeled: every pid replaced by inverse.get(pid, pid)
got_asg_labeled(got_idx, inverse) ==
    [i \in 1..Len(got_idx.asg) |->
        [got_idx.asg[i] EXCEPT !.p = DictGetOr(inverse, got_idx.asg[i].p, got_idx.asg[i].p)]]

\* len(plist) > cap
case_capacity_exceeded(n, cap) == n > cap

case_capacity_errors(exp_idx, got_idx) ==
    Flatten([i \in 1..Len(got_idx.asg_by_event) |->
        LET key == got_idx.asg_by_event[i][1]
            plist == got_idx.asg_by_event[i][2]
        IN IF case_capacity_exceeded(Len(plist), exp_idx.meta.capacity)
           THEN <<Err("[CAP]", "n > cap", key[1], key[2], <<>>, key[3], Len(plist),
                      exp_idx.meta.capacity)>>
           ELSE <<>>])

\* seen[term][pid] after the loop over got_idx["asg_by_event"].items()
case_seen(got_idx, term, pid) ==
    SumSeq([i \in 1..Len(got_idx.asg_by_event) |->
              IF got_idx.asg_by_event[i][1][1] = term
              THEN CountIn(got_idx.asg_by_event[i][2], pid) ELSE 0])

\* cnt = seen[term][pid] if pid is not None else 0, pid = mapping.get(lab)
case_count(got_idx, mapping, term, lab) ==
    IF DictHas(mapping, lab) THEN case_seen(got_idx, term, DictGet(mapping, lab)) ELSE 0

case_unique_errors(exp_idx, got_idx, mapping, term) ==
    LET labs == DictKeys(exp_idx.arrivals[term])
    IN Flatten([i \in 1..Len(labs) |->
        IF case_count(got_idx, mapping, term, labs[i]) # 1
        THEN <<Err("[F1/F4]", "assigned n times", term, -1, labs[i], -1,
                   case_count(got_idx, mapping, term, labs[i]), -1)>>
        ELSE <<>>])

case_wait_too_long(wait, wmax) == wait > wmax

case_beyond_cutoff(t, T_end, tau) == t > T_end - tau

case_wait_errors(exp_idx, got_idx, a) ==
    IF ~DictHas(got_idx.arrivals[a.terminal], a.p)
    THEN <<Err("[ARR]", "missing arrival", a.terminal, -1, a.p, -1, -1, -1)>>
    ELSE LET arr == DictGet(got_idx.arrivals[a.terminal], a.p)
             wait == a.t - arr
         IN (IF wait < 0
             THEN <<Err("[ARR]", "negative wait", a.terminal, -1, a.p, a.t, arr, -1)>>
             ELSE <<>>)
            \o (IF case_wait_too_long(wait, exp_idx.meta.w_max)
                THEN <<Err("[T3/T4]", "wait > w_max", a.terminal, -1, a.p, -1, wait,
                           exp_idx.meta.w_max)>>
                ELSE <<>>)
            \o (IF case_beyond_cutoff(a.t, exp_idx.meta.T_end, exp_idx.meta.tau)
                THEN <<Err("[F10/F13]", "departure > T_end - tau", "", -1, <<>>, a.t,
                           exp_idx.meta.T_end - exp_idx.meta.tau, -1)>>
                ELSE <<>>)

\* int() of a float counted in units of 5e-7: truncation toward zero
IntTrunc(v) ==
    IF v >= 0 THEN (v \div UNITS_PER_ONE) * UNITS_PER_ONE
    ELSE -(((-v) \div UNITS_PER_ONE) * UNITS_PER_ONE)

\* squared_objective(exp_idx["asg"], exp_idx["arrivals"]), in units of 5e-7
squared_objective(assignments, arrivals) ==
    SumSeq([i \in 1..Len(assignments) |->
        LET a == assignments[i]
            w == a.t - DictGet(arrivals[a.terminal], a.p)
        IN w * w]) * UNITS_PER_ONE

\* got_obj is None or abs(got_obj - exp_obj) > 1e-6; a comparison with NaN is False
case_objective_mismatch(got_obj, exp_obj) ==
    \/ got_obj.kind \in {"none", "inf"}
    \/ got_obj.kind = "num" /\ Abs(got_obj.v - exp_obj) > TOLERANCE

case_objective_errors(exp_idx, got_idx) ==
    IF exp_idx.expected_objective.kind = "none" THEN <<>>
    ELSE LET exp_obj == IntTrunc(exp_idx.expected_objective.v)
         IN (IF case_objective_mismatch(got_idx.objective, exp_obj)
             THEN <<Err("[OBJ]", "objective != expected", "", -1, <<>>, -1,
                        got_idx.objective.v, exp_obj)>>
             ELSE <<>>)
            \o (IF (exp_idx.arrivals["CEI"] # <<>> \/ exp_idx.arrivals["T2"] # <<>>)
                   /\ squared_objective(exp_idx.asg, exp_idx.arrivals) # exp_obj
                THEN <<Err("[OBJ-CHECK]", "expected but recomputed", "", -1, <<>>, -1,
                           exp_obj, squared_objective(exp_idx.asg, exp_idx.arrivals))>>
                ELSE <<>>)

\* squared_objective raises KeyError for an expected assignment without an arrival
check_case_raises(ex) ==
    LET exp_idx == index_expected(ex)
    IN /\ ~exp_idx.infeasible
       /\ exp_idx.expected_objective.kind # "none"
       /\ exp_idx.arrivals["CEI"] # <<>> \/ exp_idx.arrivals["T2"] # <<>>
       /\ \E i \in 1..Len(exp_idx.asg) :
            ~DictHas(exp_idx.arrivals[exp_idx.asg[i].terminal], exp_idx.asg[i].p)

\* the list check_case returns
check_case(ex, pl) ==
    LET exp_idx == index_expected(ex)
        got_idx == index_payload(pl)
        m == build_label_mapping(exp_idx, got_idx)
    IN IF exp_idx.infeasible
       THEN IF status_not_infeasible(got_idx.status)
            THEN <<Err("[STATUS]", "expected infeasible", "", -1, <<>>, -1, -1, -1)>>
            ELSE <<>>
       ELSE case_meta_errors(exp_idx, got_idx)
            \o assert_equal_sets(got_idx.deps, exp_idx.deps, "[DEPARTURES]")
            \o m.errors
            \o assert_equal_sets(got_asg_labeled(got_idx, m.inverse), exp_idx.asg,
                                 "[ASSIGNMENTS]")
            \o case_capacity_errors(exp_idx, got_idx)
            \o case_unique_errors(exp_idx, got_idx, m.mapping, "CEI")
            \o case_unique_errors(exp_idx, got_idx, m.mapping, "T2")
            \o Flatten([i \in 1..Len(got_idx.asg) |->
                          case_wait_errors(exp_idx, got_idx, got_idx.asg[i])])
            \o check_flow(exp_idx.meta, exp_idx.init, got_idx.deps, <<>>)
            \o case_objective_errors(exp_idx, got_idx)

(***************************************************************************)
(* The payloads.  payload is the result JSON both verifiers load; expected *)
(* is the reference case check_case loads beside it.                       *)
(***************************************************************************)

STR_OPTIMAL == <<79, 80, 84, 73, 77, 65, 76>>

\* a result with no departure and no assignment
EmptyPayload(tau, capacity, w_max, T_end) ==
    [meta |-> [tau |-> tau, capacity |-> capacity, w_max |-> w_max, T_end |-> T_end],
     arrivals |-> [term \in Terminals |-> <<>>],
     initial_positions |-> <<>>,
     departures |-> <<>>,
     assignments |-> <<>>,
     objective |-> ObjNone,
     status |-> STR_OPTIMAL]

\* a reference case with no expected departure and no expected assignment
EmptyExpected(tau, capacity, w_max, T_end) ==
    [meta |-> [tau |-> tau, capacity |-> capacity, w_max |-> w_max, T_end |-> T_end],
     init |-> <<>>,
     expected_departures |-> <<>>,
     expected_assignments |-> <<>>,
     arrivals |-> [term \in Terminals |-> <<>>],
     infeasible |-> FALSE,
     expected_objective |-> ObjNone]

\* the reference case written from a result: the same departures, the same
\* assignments and arrivals with every passenger labelled by its id
ReferenceOf(pl, ex) ==
    LET departures == PayloadGet(pl, "departures", <<>>)
        assignments == PayloadGet(pl, "assignments", <<>>)
        arrivals == PayloadGet(pl, "arrivals", [term \in Terminals |-> <<>>])
    IN [ex EXCEPT
          !.expected_departures = departures,
          !.expected_assignments =
              [i \in 1..Len(assignments) |->
                 [terminal |-> assignments[i].terminal, p |-> Digits(assignments[i].p),
                  bus |-> assignments[i].bus, t |-> assignments[i].t]],
          !.arrivals =
              [term \in Terminals |->
                 [i \in 1..Len(arrivals[term]) |->
                    <<Digits(arrivals[term][i].p), arrivals[term][i].arr>>]]]

(***************************************************************************)
(* Operations.  pc is "build" while the files are written, "indexed" after *)
(* build_index, "exit" after main's checks, "returned" after check_case,   *)
(* "raised" after an uncaught exception.                                   *)
(***************************************************************************)

\* a departure record is appended to the result's departures
AddDeparture(term, bus, t) ==
    /\ pc = "build"
    /\ Len(payload.departures) < MaxDeps
    /\ payload' = [payload EXCEPT !.departures =
                      Append(@, [terminal |-> term, bus |-> bus, t |-> t])]
    /\ UNCHANGED <<expected, pc, idx, errors, verdict, case_errors,
                 cfg, data, prob>>

\* test.py main: payload = load_payload(...); idx = build_index(payload)
BuildIndex ==
    /\ pc = "build"
    /\ IF build_index_raises(payload)
       THEN /\ pc' = "raised"
            /\ UNCHANGED idx
       ELSE /\ pc' = "indexed"
            /\ idx' = build_index(payload)
    /\ UNCHANGED <<payload, expected, errors, verdict, case_errors,
                 cfg, data, prob>>

\* test.py main: the six checks and the verdict
RunChecks ==
    /\ pc = "indexed"
    /\ errors' = main_errors(idx)
    /\ idx' = [idx EXCEPT !.deps = deps_after_link(@, idx.asg_list)]
    /\ verdict' = IF errors' # <<>> THEN "FAILED" ELSE "PASSED"
    /\ pc' = "exit"
    /\ UNCHANGED <<payload, expected, case_errors,
                 cfg, data, prob>>

\* test_case.py main: errs = check_case(args.case, args.result); the reference
\* file is either the one at hand or the one written from this result
CheckCase ==
    /\ pc = "build"
    /\ \E ex \in {expected, ReferenceOf(payload, expected)} :
         /\ expected' = ex
         /\ IF check_case_raises(ex)
            THEN /\ pc' = "raised"
                 /\ UNCHANGED case_errors
            ELSE /\ pc' = "returned"
                 /\ case_errors' = check_case(ex, payload)
    /\ UNCHANGED <<payload, idx, errors, verdict,
                 cfg, data, prob>>

(***************************************************************************)
(* SpecFlow: departures of two buses under every travel delay and initial  *)
(* placement, checked by check_bus_flow (main) and check_flow (check_case). *)
(***************************************************************************)

InitialPositions ==
    {<<>>,
     <<[bus |-> 0, terminal |-> "CEI"]>>,
     <<[bus |-> 0, terminal |-> "T2"]>>,
     <<[bus |-> 0, terminal |-> "CEI"], [bus |-> 1, terminal |-> "T2"]>>}

InitFlow ==
    /\ pc = "build"
    /\ \E tau \in Taus, init \in InitialPositions :
         /\ payload = [EmptyPayload(tau, 1, 3, 5) EXCEPT !.initial_positions = init]
         /\ expected = [EmptyExpected(tau, 1, 3, 5) EXCEPT !.init = init]
    /\ idx = <<>>
    /\ errors = <<>>
    /\ verdict = ""
    /\ case_errors = <<>>
    /\ NoSolverModel

NextFlow ==
    \/ \E term \in Terminals, bus \in Buses, t \in Times : AddDeparture(term, bus, t)
    \/ BuildIndex
    \/ RunChecks
    \/ CheckCase

SpecFlow == InitFlow /\ [][NextFlow]_vars

(***************************************************************************)
(* Properties of the bus-flow checks (C1, C2, C3).                         *)
(***************************************************************************)

\* the departures of bus b in the order the verifiers process them
TimeOrdered(b) == sort_events(SelectSeq(payload.departures, LAMBDA d : d.bus = b))

\* the violations with the given tag that name bus b, in the order reported
ErrorsOf(errs, tag, b) == SelectSeq(errs, LAMBDA e : e.tag = tag /\ e.bus = b)

\* the positions 1..n that satisfy P, in increasing order
PositionsUpTo(n, P(_)) ==
    LET S == {i \in 1..n : P(i)}
    IN [k \in 1..Cardinality(S) |-> CHOOSE i \in S : Cardinality({j \in S : j < i}) = k - 1]

\* the other terminal
Other(term) == IF term = "T2" THEN "CEI" ELSE "T2"

\* position i of s departs before tau slots have passed since position i - 1
TooEarly(s, i, tau) == i >= 2 /\ s[i].t < s[i - 1].t + tau

\* the terminal the bus is at before position i; init is "" when not configured
TerminalBefore(s, i, init) ==
    IF i >= 2 THEN Other(s[i - 1].terminal)
    ELSE IF init # "" THEN init ELSE s[1].terminal

ConfiguredInit(positions, b) ==
    IF \E i \in 1..Len(positions) : positions[i].bus = b
    THEN positions[CHOOSE i \in 1..Len(positions) : positions[i].bus = b].terminal
    ELSE ""

\* the [FLOW] violations of bus b are exactly its too-early departures, each
\* reported with its time and the time t_prev + tau the bus is busy until
FlowExactlyTooEarly(errs, b, tau) ==
    LET s == TimeOrdered(b)
        pos == PositionsUpTo(Len(s), LAMBDA i : TooEarly(s, i, tau))
        flow == ErrorsOf(errs, "[FLOW]", b)
    IN /\ Len(flow) = Len(pos)
       /\ \A k \in 1..Len(pos) :
            flow[k].t = s[pos[k]].t /\ flow[k].x = s[pos[k] - 1].t + tau

\* C1: in check_bus_flow and in check_flow a departure at t that follows a
\* departure of the same bus at t_prev is reported as [FLOW] exactly when
\* t < t_prev + tau (t = t_prev + tau passes, t = t_prev + tau - 1 fails)
C1_FlowIffBeforeTau ==
    /\ pc = "exit" => \A b \in Buses : FlowExactlyTooEarly(errors, b, payload.meta.tau)
    /\ pc = "returned" =>
         \A b \in Buses : FlowExactlyTooEarly(case_errors, b, expected.meta.tau)

\* the schedule of scenario C: bus 0 leaves CEI twice, tau - 1 slots apart
C1_Witness ==
    /\ pc = "exit"
    /\ payload.meta.tau = 2
    /\ Len(payload.departures) = 2
    /\ \A i \in 1..2 : payload.departures[i].bus = 0 /\ payload.departures[i].terminal = "CEI"
    /\ payload.departures[2].t = payload.departures[1].t + payload.meta.tau - 1
    /\ Len(ErrorsOf(errors, "[FLOW]", 0)) = 1

\* the location violations of bus b are exactly the departures from a terminal
\* other than the one the bus is at
LocExactlyElsewhere(errs, tag, b, init) ==
    LET s == TimeOrdered(b)
        pos == PositionsUpTo(Len(s), LAMBDA i : s[i].terminal # TerminalBefore(s, i, init))
        loc == ErrorsOf(errs, tag, b)
    IN /\ Len(loc) = Len(pos)
       /\ \A k \in 1..Len(pos) :
            loc[k].term = s[pos[k]].terminal /\ loc[k].x = TermOrd(Other(loc[k].term))

\* the departures of s alternate terminals, starting from init
Alternates(s, init) ==
    \A i \in 1..Len(s) :
        s[i].terminal = (IF i = 1 THEN init ELSE Other(s[i - 1].terminal))

\* C2: a departure is reported as a location violation ([F7/F8], [LOC]) exactly
\* when its terminal is not the bus's current terminal (the configured initial
\* position, then the terminal opposite to the previous departure); so a bus
\* with a configured position has no location violation iff its time-sorted
\* departures alternate terminals starting from that position
C2_LocationIffElsewhere ==
    /\ pc = "exit" =>
         \A b \in Buses :
            LET init == ConfiguredInit(payload.initial_positions, b)
            IN /\ LocExactlyElsewhere(errors, "[F7/F8]", b, init)
               /\ \A k \in 1..Len(ErrorsOf(errors, "[F7/F8]", b)) :
                    \E i \in 1..Len(TimeOrdered(b)) :
                        ErrorsOf(errors, "[F7/F8]", b)[k].t = TimeOrdered(b)[i].t
               /\ init # "" =>
                    (ErrorsOf(errors, "[F7/F8]", b) = <<>> <=> Alternates(TimeOrdered(b), init))
    /\ pc = "returned" =>
         \A b \in Buses :
            LET init == ConfiguredInit(expected.init, b)
            IN /\ LocExactlyElsewhere(case_errors, "[LOC]", b, init)
               /\ init # "" =>
                    (ErrorsOf(case_errors, "[LOC]", b) = <<>> <=> Alternates(TimeOrdered(b), init))

\* bus 0 starts at CEI and leaves CEI, then CEI again: one location violation
C2_Witness ==
    /\ pc = "returned"
    /\ ConfiguredInit(expected.init, 0) = "CEI"
    /\ Len(TimeOrdered(0)) = 2
    /\ TimeOrdered(0)[1].terminal = "CEI"
    /\ TimeOrdered(0)[2].terminal = "CEI"
    /\ Len(ErrorsOf(case_errors, "[LOC]", 0)) = 1

\* bus b leaves both terminals at the same instant
SameInstantBothTerminals(b) ==
    \E i, j \in 1..Len(payload.departures) :
        /\ payload.departures[i].bus = b
        /\ payload.departures[j].bus = b
        /\ payload.departures[i].t = payload.departures[j].t
        /\ payload.departures[i].terminal # payload.departures[j].terminal

\* C3: two departures of one bus at the same instant from different terminals
\* are always flagged, by main's check_bus_flow and by check_case
C3_SameInstantFlagged ==
    \A b \in Buses :
        SameInstantBothTerminals(b) =>
            /\ pc = "exit" => errors # <<>>
            /\ pc = "returned" => case_errors # <<>>

\* the standalone checker's part of C3: an [M3] violation names the bus
C3_SameInstantFlaggedByMain ==
    \A b \in Buses :
        (pc = "exit" /\ SameInstantBothTerminals(b)) => ErrorsOf(errors, "[M3]", b) # <<>>

(***************************************************************************)
(* SpecAssign: assignments of the passengers 0 and 1 to bus 0, under two   *)
(* capacities and a few departure lists.  Passenger 0 arrives at both      *)
(* terminals, passenger 1 at none.                                         *)
(***************************************************************************)

\* an assignment record is appended to the result's assignments
AddAssignment(term, p, bus, t, wait) ==
    /\ pc = "build"
    /\ Len(payload.assignments) < MaxAsg
    /\ payload' = [payload EXCEPT !.assignments =
                      Append(@, [terminal |-> term, p |-> p, bus |-> bus, t |-> t,
                                 wait |-> wait])]
    /\ UNCHANGED <<expected, pc, idx, errors, verdict, case_errors,
                 cfg, data, prob>>

Dep(term, bus, t) == [terminal |-> term, bus |-> bus, t |-> t]

DeparturePatterns ==
    {<<>>,
     <<Dep("CEI", 0, 0)>>,
     <<Dep("T2", 0, 0)>>,
     <<Dep("CEI", 0, 1)>>,
     <<Dep("CEI", 1, 0)>>,
     <<Dep("CEI", 0, 0), Dep("T2", 0, 1)>>}

Capacities == {1, 2}

\* the labels "a" and "b" of the reference
LABEL_A == <<97>>

LABEL_B == <<98>>

InitAssign ==
    /\ pc = "build"
    /\ \E cap \in Capacities, deps \in DeparturePatterns :
         /\ payload = [EmptyPayload(0, cap, 3, 5) EXCEPT
                         !.arrivals = [term \in Terminals |-> <<[p |-> 0, arr |-> 0]>>],
                         !.departures = deps]
         /\ expected = [EmptyExpected(0, cap, 3, 5) EXCEPT
                         !.arrivals = [term \in Terminals |->
                                         IF term = "CEI" THEN <<(<<LABEL_A, 0>>)>>
                                         ELSE <<(<<LABEL_B, 0>>)>>],
                         !.expected_departures = deps,
                         !.expected_assignments =
                             <<[terminal |-> "CEI", p |-> LABEL_A, bus |-> 0, t |-> 0],
                               [terminal |-> "T2", p |-> LABEL_B, bus |-> 0, t |-> 0]>>]
    /\ idx = <<>>
    /\ errors = <<>>
    /\ verdict = ""
    /\ case_errors = <<>>
    /\ NoSolverModel

NextAssign ==
    \/ \E term \in Terminals, p \in {0, 1}, t \in {0, 1} : AddAssignment(term, p, 0, t, t)
    \/ BuildIndex
    \/ RunChecks
    \/ CheckCase

SpecAssign == InitAssign /\ [][NextAssign]_vars

(***************************************************************************)
(* Properties of the assignment checks (C4, C5, C6).                       *)
(***************************************************************************)

\* the number of assignment records of recs at term whose passenger is p
Referencing(recs, term, p) ==
    Cardinality({i \in 1..Len(recs) : recs[i].terminal = term /\ recs[i].p = p})

\* the passengers listed in the result's arrivals of term
Listed(term) == {payload.arrivals[term][i].p : i \in 1..Len(payload.arrivals[term])}

\* the labels listed in the reference's arrivals of term
ListedLabels(term) == {expected.arrivals[term][i][1] : i \in 1..Len(expected.arrivals[term])}

UniqueReported(errs, term, p) ==
    \E i \in 1..Len(errs) : errs[i].tag = "[F1/F4]" /\ errs[i].term = term /\ errs[i].p = p

\* test.py: [F1/F4] for a listed passenger iff its records at the terminal are not 1
UniqueInMain ==
    pc = "exit" =>
        \A term \in Terminals : \A p \in Listed(term) :
            UniqueReported(errors, term, p) <=> Referencing(payload.assignments, term, p) # 1

\* every listed passenger has exactly one assignment record at its own terminal
EveryPassengerOnce ==
    \A term \in Terminals : \A p \in Listed(term) :
        Referencing(payload.assignments, term, p) = 1

\* C4 as stated, for both verifiers: [F1/F4] iff the count is not 1, and no
\* [F1/F4] at all for a schedule that assigns every passenger exactly once
C4_AsStated ==
    /\ UniqueInMain
    /\ (pc = "exit" /\ EveryPassengerOnce) => ~HasTag(errors, "[F1/F4]")
    /\ (pc = "returned" /\ EveryPassengerOnce) => ~HasTag(case_errors, "[F1/F4]")

\* the pid build_label_mapping pairs with a reference label, <<>> when unpaired
PartnerOf(lab) ==
    DictGetOr(build_label_mapping(index_expected(expected), index_payload(payload)).mapping,
              lab, <<>>)

\* the number of the result's records at term whose passenger prints as pid
ReferencingPid(term, pid) ==
    Cardinality({i \in 1..Len(payload.assignments) :
                    /\ payload.assignments[i].terminal = term
                    /\ Digits(payload.assignments[i].p) = pid})

\* C4 (amended): in test.py a listed passenger gets [F1/F4] iff the number of its
\* assignment records at that terminal is not 1, and a schedule assigning every
\* passenger once gets none; in check_case a reference label gets [F1/F4] iff it
\* has no partner in the label mapping or its partner's records at that terminal
\* are not exactly 1
C4_UniqueAssignment ==
    /\ UniqueInMain
    /\ (pc = "exit" /\ EveryPassengerOnce) => ~HasTag(errors, "[F1/F4]")
    /\ pc = "returned" =>
         \A term \in Terminals : \A lab \in ListedLabels(term) :
            UniqueReported(case_errors, term, lab)
                <=> (PartnerOf(lab) = <<>> \/ ReferencingPid(term, PartnerOf(lab)) # 1)

\* passenger 0 of CEI is assigned at T2 only: counted 0 times at CEI
C4_Witness ==
    /\ pc = "exit"
    /\ Referencing(payload.assignments, "CEI", 0) = 0
    /\ Referencing(payload.assignments, "T2", 0) = 1
    /\ UniqueReported(errors, "CEI", 0)
    /\ ~UniqueReported(errors, "T2", 0)

HasDeparture(term, bus, t) ==
    \E i \in 1..Len(payload.departures) : payload.departures[i] = Dep(term, bus, t)

\* C5: an assignment (terminal, p, bus, t) is reported by
\* check_assignment_link_to_departure iff the schedule has no departure record
\* with the same (terminal, bus, t)
C5_LinkToDeparture ==
    pc = "exit" =>
        /\ \A i \in 1..Len(payload.assignments) :
             LET a == payload.assignments[i]
             IN (\E k \in 1..Len(errors) :
                    /\ errors[k].tag = "[Link x->bd]"
                    /\ errors[k].term = a.terminal /\ errors[k].bus = a.bus
                    /\ errors[k].t = a.t /\ errors[k].p = a.p)
                <=> ~HasDeparture(a.terminal, a.bus, a.t)
        /\ Cardinality({k \in 1..Len(errors) : errors[k].tag = "[Link x->bd]"})
             = Cardinality({i \in 1..Len(payload.assignments) :
                              ~HasDeparture(payload.assignments[i].terminal,
                                            payload.assignments[i].bus,
                                            payload.assignments[i].t)})

\* an assignment at CEI whose bus leaves at that time from T2 only
C5_Witness ==
    /\ pc = "exit"
    /\ payload.departures = <<Dep("T2", 0, 0)>>
    /\ \E i \in 1..Len(payload.assignments) :
         payload.assignments[i].terminal = "CEI" /\ payload.assignments[i].t = 0
    /\ \E k \in 1..Len(errors) :
         errors[k].tag = "[Link x->bd]" /\ errors[k].term = "CEI" /\ errors[k].t = 0

\* the boarding groups of the result and their sizes
Groups == {<<payload.assignments[i].terminal, payload.assignments[i].bus,
             payload.assignments[i].t>> : i \in 1..Len(payload.assignments)}

GroupSize(g) ==
    Cardinality({i \in 1..Len(payload.assignments) :
                    <<payload.assignments[i].terminal, payload.assignments[i].bus,
                      payload.assignments[i].t>> = g})

CapacityReported(errs, tag, g) ==
    \E k \in 1..Len(errs) :
        errs[k].tag = tag /\ errs[k].term = g[1] /\ errs[k].bus = g[2] /\ errs[k].t = g[3]

\* C6: a boarding group is reported ([F3/F6], [CAP]) iff it has more passengers
\* than the capacity; a group of exactly capacity passengers passes
C6_CapacityStrict ==
    /\ pc = "exit" =>
         /\ \A g \in Groups :
              CapacityReported(errors, "[F3/F6]", g) <=> GroupSize(g) > payload.meta.capacity
         /\ Cardinality({k \in 1..Len(errors) : errors[k].tag = "[F3/F6]"})
              = Cardinality({g \in Groups : GroupSize(g) > payload.meta.capacity})
    /\ pc = "returned" =>
         /\ \A g \in Groups :
              CapacityReported(case_errors, "[CAP]", g)
                  <=> GroupSize(g) > expected.meta.capacity
         /\ Cardinality({k \in 1..Len(case_errors) : case_errors[k].tag = "[CAP]"})
              = Cardinality({g \in Groups : GroupSize(g) > expected.meta.capacity})

\* capacity 2 and a group of exactly two passengers: no capacity violation
C6_Witness ==
    /\ pc = "exit"
    /\ payload.meta.capacity = 2
    /\ \E g \in Groups : GroupSize(g) = 2
    /\ ~HasTag(errors, "[F3/F6]")

(***************************************************************************)
(* SpecWait: assignments of the passengers 0 and 1 at CEI with a reported  *)
(* wait.  Passenger 0 arrives at slot 1, passenger 1 has no arrival.  The  *)
(* horizon is 3, w_max is 1, and bus 1 may run once with nobody on board, at *)
(* the cutoff or one slot after it.                                        *)
(***************************************************************************)

WAIT_T_END == 3

WAIT_W_MAX == 1

WAIT_ARRIVAL == 1

WaitTaus == {1, 2}

\* the reported wait is the true one or one slot more
WaitSlack == {0, 1}

\* bus 0 leaves CEI at the arrival slot of passenger 0; bus 1 may leave with
\* nobody on board at the cutoff or one slot after it
EmptyRuns(tau) ==
    {<<Dep("CEI", 0, WAIT_ARRIVAL)>>,
     <<Dep("CEI", 0, WAIT_ARRIVAL), Dep("CEI", 1, WAIT_T_END - tau)>>,
     <<Dep("CEI", 0, WAIT_ARRIVAL), Dep("CEI", 1, WAIT_T_END - tau + 1)>>}

InitWait ==
    /\ pc = "build"
    /\ \E tau \in WaitTaus : \E deps \in EmptyRuns(tau) :
         /\ payload = [EmptyPayload(tau, 2, WAIT_W_MAX, WAIT_T_END) EXCEPT
                         !.arrivals = [term \in Terminals |->
                                         IF term = "CEI"
                                         THEN <<[p |-> 0, arr |-> WAIT_ARRIVAL]>>
                                         ELSE <<>>],
                         !.departures = deps]
         /\ expected = [EmptyExpected(tau, 2, WAIT_W_MAX, WAIT_T_END) EXCEPT
                         !.expected_departures = deps]
    /\ idx = <<>>
    /\ errors = <<>>
    /\ verdict = ""
    /\ case_errors = <<>>
    /\ NoSolverModel

NextWait ==
    \/ \E p \in {0, 1}, t \in Times, d \in WaitSlack :
         AddAssignment("CEI", p, 0, t, t - WAIT_ARRIVAL + d)
    \/ BuildIndex
    \/ RunChecks
    \/ CheckCase

SpecWait == InitWait /\ [][NextWait]_vars

(***************************************************************************)
(* Properties of the wait and window checks (C7, C8).                      *)
(***************************************************************************)

WaitTags == {"[WAIT]", "[ARR]", "[T3/T4]"}

WithTags(errs, tags) == SelectSeq(errs, LAMBDA e : e.tag \in tags)

\* the arrival slot the result lists for passenger p at term, -1 when it lists none
KnownArrival(term, p) ==
    IF \E i \in 1..Len(payload.arrivals[term]) : payload.arrivals[term][i].p = p
    THEN LET i == CHOOSE i \in 1..Len(payload.arrivals[term]) :
                     payload.arrivals[term][i].p = p
         IN payload.arrivals[term][i].arr
    ELSE -1

HasKnownArrival(rec) == KnownArrival(rec.terminal, rec.p) # -1

TrueWait(rec) == rec.t - KnownArrival(rec.terminal, rec.p)

\* the wait violations check_wait_and_windows reports for one assignment record
WaitViolationsOf(rec) ==
    WithTags(check_wait_and_windows(
                 build_index([payload EXCEPT !.assignments = <<rec>>]), <<>>),
             WaitTags)

CountTagged(errs, tag, msg) ==
    Cardinality({k \in 1..Len(errs) : errs[k].tag = tag /\ errs[k].msg = msg})

\* C7: for every assignment whose passenger has a known arrival,
\* check_wait_and_windows reports a wait violation iff the reported wait differs
\* from t - arrival, or the wait is negative, or the wait exceeds w_max; a wait
\* equal to w_max gives no wait violation and a wait of w_max + 1 gives one.
\* check_case, which reads no reported wait, reports the negative and the too
\* long waits it recomputes.
C7_WaitViolations ==
    /\ pc = "exit" =>
         /\ WithTags(errors, WaitTags)
              = Flatten([i \in 1..Len(payload.assignments) |->
                           WaitViolationsOf(payload.assignments[i])])
         /\ \A i \in 1..Len(payload.assignments) :
              LET rec == payload.assignments[i]
              IN HasKnownArrival(rec) =>
                   /\ WaitViolationsOf(rec) # <<>>
                        <=> \/ rec.wait # TrueWait(rec)
                            \/ TrueWait(rec) < 0
                            \/ TrueWait(rec) > payload.meta.w_max
                   /\ (rec.wait = TrueWait(rec) /\ rec.wait = payload.meta.w_max)
                        => WaitViolationsOf(rec) = <<>>
                   /\ rec.wait = payload.meta.w_max + 1
                        => HasTag(WaitViolationsOf(rec), "[T3/T4]")
                   /\ HasTag(WaitViolationsOf(rec), "[WAIT]") <=> rec.wait # TrueWait(rec)
                   /\ HasTag(WaitViolationsOf(rec), "[T3/T4]")
                        <=> rec.wait > payload.meta.w_max
    /\ pc = "returned" =>
         /\ CountTagged(case_errors, "[T3/T4]", "wait > w_max")
              = Cardinality({i \in 1..Len(payload.assignments) :
                               /\ HasKnownArrival(payload.assignments[i])
                               /\ TrueWait(payload.assignments[i]) > expected.meta.w_max})
         /\ CountTagged(case_errors, "[ARR]", "negative wait")
              = Cardinality({i \in 1..Len(payload.assignments) :
                               /\ HasKnownArrival(payload.assignments[i])
                               /\ TrueWait(payload.assignments[i]) < 0})

\* one passenger record waits exactly w_max and passes, another waits w_max + 1
\* and is the only one reported
C7_Witness ==
    /\ pc = "exit"
    /\ Len(payload.assignments) = 2
    /\ \A i \in 1..2 : /\ HasKnownArrival(payload.assignments[i])
                       /\ payload.assignments[i].wait = TrueWait(payload.assignments[i])
    /\ payload.assignments[1].wait = payload.meta.w_max
    /\ payload.assignments[2].wait = payload.meta.w_max + 1
    /\ Len(WithTags(errors, WaitTags)) = 1
    /\ HasTag(errors, "[T3/T4]")

Cutoff == payload.meta.T_end - payload.meta.tau

LateDeparture == \E i \in 1..Len(payload.departures) : payload.departures[i].t = Cutoff + 1

\* the assignment records the window check looks at: those at t whose passenger
\* has a known arrival
BoardingsAt(P(_)) ==
    {i \in 1..Len(payload.assignments) :
        HasKnownArrival(payload.assignments[i]) /\ P(payload.assignments[i].t)}

\* C8 as stated: a schedule with a departure event at cutoff + 1, with or
\* without passengers assigned to it, is reported by either verifier
C8_AsStated ==
    /\ (pc = "exit" /\ LateDeparture) => errors # <<>>
    /\ (pc = "returned" /\ LateDeparture) => case_errors # <<>>

\* C8 (amended): both verifiers report a window violation exactly once for
\* every assignment record at t > cutoff whose passenger has a known arrival;
\* a record at t = cutoff gives none, and neither does a departure event that
\* no such record refers to
C8_CutoffBoundary ==
    /\ pc = "exit" =>
         /\ Len(WithTags(errors, {"[Last-window]"}))
              = Cardinality(BoardingsAt(LAMBDA t : t > Cutoff))
         /\ \A k \in 1..Len(errors) :
              errors[k].tag = "[Last-window]" =>
                 BoardingsAt(LAMBDA t : t = errors[k].t /\ t > Cutoff) # {}
         /\ \A i \in BoardingsAt(LAMBDA t : t > Cutoff) :
              \E k \in 1..Len(errors) :
                 errors[k].tag = "[Last-window]" /\ errors[k].t = payload.assignments[i].t
    /\ pc = "returned" =>
         /\ Len(WithTags(case_errors, {"[F10/F13]"}))
              = Cardinality(BoardingsAt(LAMBDA t : t > Cutoff))
         /\ \A k \in 1..Len(case_errors) :
              case_errors[k].tag = "[F10/F13]" =>
                 BoardingsAt(LAMBDA t : t = case_errors[k].t /\ t > Cutoff) # {}

\* a boarding at the cutoff and one a slot later: only the later one is reported
C8_Witness ==
    /\ pc = "exit"
    /\ BoardingsAt(LAMBDA t : t = Cutoff) # {}
    /\ BoardingsAt(LAMBDA t : t = Cutoff + 1) # {}
    /\ Len(WithTags(errors, {"[Last-window]"})) = 1

(***************************************************************************)
(* SpecObjective: a result with a reported objective.  Passenger 0 arrives *)
(* at CEI at slot 1 and passenger 1 at slot 0; bus 0 leaves CEI at slot 1  *)
(* with room for both.  The objective is absent, NaN, infinite, or a whole *)
(* number of slots plus a small offset.                                    *)
(***************************************************************************)

\* offsets from a whole number, in units of 5e-7: 5e-7 and 1.5e-6 either way.
\* An offset of exactly 1e-6 is left out: whether abs(objective - s) > 1e-6 holds
\* for it depends on the rounding of the two floats.
ObjectiveOffsets == {-3, -1, 0, 1, 3}

ReportedObjectives ==
    {ObjNone, [kind |-> "nan", v |-> 0], [kind |-> "inf", v |-> 0]}
        \cup {ObjNum(k * UNITS_PER_ONE + d) : k \in 0..MaxAsg, d \in ObjectiveOffsets}

InitObjective ==
    /\ pc = "build"
    /\ \E obj \in ReportedObjectives :
         payload = [EmptyPayload(0, 2, 3, 5) EXCEPT
                      !.arrivals = [term \in Terminals |->
                                      IF term = "CEI"
                                      THEN <<[p |-> 0, arr |-> 1], [p |-> 1, arr |-> 0]>>
                                      ELSE <<>>],
                      !.departures = <<Dep("CEI", 0, 1)>>,
                      !.objective = obj]
    /\ expected = [EmptyExpected(0, 2, 3, 5) EXCEPT
                      !.expected_departures = <<Dep("CEI", 0, 1)>>]
    /\ idx = <<>>
    /\ errors = <<>>
    /\ verdict = ""
    /\ case_errors = <<>>
    /\ NoSolverModel

NextObjective ==
    \/ \E p \in {0, 1}, wait \in {0, 1} : AddAssignment("CEI", p, 0, 1, wait)
    \/ BuildIndex
    \/ RunChecks
    \/ CheckCase

SpecObjective == InitObjective /\ [][NextObjective]_vars

(***************************************************************************)
(* Properties of the objective check (C9).                                 *)
(***************************************************************************)

\* the sum of the recorded waits of all assignments, in units of 5e-7
RecordedWaits ==
    LET f[n \in 0..Len(payload.assignments)] ==
            IF n = 0 THEN 0 ELSE f[n - 1] + payload.assignments[n].wait
    IN f[Len(payload.assignments)] * UNITS_PER_ONE

Distance(a, b) == IF a < b THEN b - a ELSE a - b

\* [OBJ] iff an objective is reported and is not finite or is more than 1e-6
\* away from the sum of the recorded waits
ObjReportedIffFar ==
    pc = "exit" =>
        /\ HasTag(errors, "[OBJ]")
             <=> /\ payload.objective.kind # "none"
                 /\ \/ payload.objective.kind # "num"
                    \/ Distance(payload.objective.v, RecordedWaits) > TOLERANCE
        /\ Len(SelectSeq(errors, LAMBDA e : e.tag = "[OBJ]")) <= 1

PassedWithObjective ==
    pc = "exit" /\ verdict = "PASSED" /\ payload.objective.kind # "none"

\* C9 as stated: [OBJ] iff a reported objective is not finite or differs from the
\* sum of the recorded waits by more than 1e-6, and every schedule that passes
\* with a reported objective has objective equal to the sum of its waits
C9_AsStated ==
    /\ ObjReportedIffFar
    /\ PassedWithObjective =>
         payload.objective.kind = "num" /\ payload.objective.v = RecordedWaits

\* C9 (amended): [OBJ] iff a reported objective is not finite or differs from the
\* sum of the recorded waits by more than 1e-6, and every schedule that passes
\* with a reported objective has a finite objective within 1e-6 of that sum
C9_ObjectiveWithinTolerance ==
    /\ ObjReportedIffFar
    /\ PassedWithObjective =>
         /\ payload.objective.kind = "num"
         /\ Distance(payload.objective.v, RecordedWaits) <= TOLERANCE

\* a schedule with assignments passes with an objective 5e-7 above its sum of waits
C9_Witness ==
    /\ PassedWithObjective
    /\ payload.assignments # <<>>
    /\ payload.objective.v = RecordedWaits + 1

(***************************************************************************)
(* SpecStatus: a reference case that may declare the instance infeasible,  *)
(* and a result with some status string and some departures of bus 0 that  *)
(* the reference does not expect.                                          *)
(***************************************************************************)

\* "INFEASIBLE"
STR_INFEASIBLE == <<73, 78, 70, 69, 65, 83, 73, 66, 76, 69>>

\* the status strings of a result file
Statuses ==
    {
     <<105, 110, 102, 101, 97, 115, 105, 98, 108, 101>>,  \* "infeasible"
     <<73, 78, 70, 69, 65, 83, 73, 66, 76, 69>>,  \* "INFEASIBLE"
     <<73, 110, 102, 101, 97, 115, 105, 98, 108, 101>>,  \* "Infeasible"
     <<111, 112, 116, 105, 109, 97, 108>>,  \* "optimal"
     <<79, 80, 84, 73, 77, 65, 76>>,  \* "OPTIMAL"
     <<102, 101, 97, 115, 105, 98, 108, 101>>,  \* "feasible"
     <<116, 105, 109, 101, 111, 117, 116>>,  \* "timeout"
     <<117, 110, 107, 110, 111, 119, 110>>,  \* "unknown"
     <<110, 111, 45, 115, 111, 108, 117, 116, 105, 111, 110>>,  \* "no-solution"
     <<>>  \* ""
    }

InitStatus ==
    /\ pc = "build"
    /\ \E st \in Statuses : payload = [EmptyPayload(1, 1, 3, 5) EXCEPT !.status = st]
    /\ \E inf \in BOOLEAN : expected = [EmptyExpected(1, 1, 3, 5) EXCEPT !.infeasible = inf]
    /\ idx = <<>>
    /\ errors = <<>>
    /\ verdict = ""
    /\ case_errors = <<>>
    /\ NoSolverModel

NextStatus ==
    \/ \E term \in Terminals, t \in {0, 1} : AddDeparture(term, 0, t)
    \/ BuildIndex
    \/ RunChecks
    \/ CheckCase

SpecStatus == InitStatus /\ [][NextStatus]_vars

(***************************************************************************)
(* Properties of the infeasible branch (C10).                              *)
(***************************************************************************)

\* the result's status reads "infeasible", in any letter case
StatusIsInfeasible ==
    [i \in 1..Len(payload.status) |->
        IF payload.status[i] \in 97..122 THEN payload.status[i] - 32 ELSE payload.status[i]]
      = STR_INFEASIBLE

\* C10: when the reference has its infeasible flag set, check_case returns an
\* empty list iff the result's status is infeasible; every other status yields a
\* [STATUS] violation, and in either case no other check is run
C10_InfeasibleStatus ==
    (pc = "returned" /\ expected.infeasible) =>
        /\ case_errors = <<>> <=> StatusIsInfeasible
        /\ ~StatusIsInfeasible => HasTag(case_errors, "[STATUS]")
        /\ Len(case_errors) <= 1
        /\ \A k \in 1..Len(case_errors) : case_errors[k].tag = "[STATUS]"

\* with the infeasible flag set nothing but [STATUS] is ever returned
C10_NoOtherCheck ==
    (pc = "returned" /\ expected.infeasible) =>
        /\ Len(case_errors) <= 1
        /\ \A k \in 1..Len(case_errors) : case_errors[k].tag = "[STATUS]"

(***************************************************************************)
(* SpecMain: a result that can break every check of test.py at once.  One  *)
(* seat per bus, w_max 0, horizon 3 and tau 2 (cutoff 1); passenger 0      *)
(* arrives at CEI at slot 1, passenger 1 has no arrival; bus 0 departs at  *)
(* the slots 1 and 2; the objective is absent, 0 or 2.                     *)
(***************************************************************************)

MainObjectives == {ObjNone, ObjNum(0), ObjNum(2 * UNITS_PER_ONE)}

InitMain ==
    /\ pc = "build"
    /\ \E obj \in MainObjectives :
         payload = [EmptyPayload(2, 1, 0, 3) EXCEPT
                      !.arrivals = [term \in Terminals |->
                                      IF term = "CEI" THEN <<[p |-> 0, arr |-> 1]>>
                                      ELSE <<>>],
                      !.objective = obj]
    /\ expected = EmptyExpected(2, 1, 0, 3)
    /\ idx = <<>>
    /\ errors = <<>>
    /\ verdict = ""
    /\ case_errors = <<>>
    /\ NoSolverModel

NextMain ==
    \/ \E term \in Terminals, t \in {1, 2} : AddDeparture(term, 0, t)
    \/ \E p \in {0, 1}, t \in {1, 2} : AddAssignment("CEI", p, 0, t, t - 1)
    \/ BuildIndex
    \/ RunChecks
    \/ CheckCase

SpecMain == InitMain /\ [][NextMain]_vars

(***************************************************************************)
(* Properties of main (C11) and of what the checks leave behind (C12).     *)
(***************************************************************************)

\* the position in main's order of the check that writes a tag
CheckRank(tag) ==
    CASE tag = "[F1/F4]" -> 1
      [] tag = "[Link x->bd]" -> 2
      [] tag = "[F3/F6]" -> 3
      [] tag \in {"[ARR]", "[WAIT]", "[T3/T4]", "[Last-window]"} -> 4
      [] tag \in {"[M3]", "[FLOW]", "[F7/F8]"} -> 5
      [] tag = "[OBJ]" -> 6

\* what the k-th check reports when it is run alone on the index of the payload
CheckAlone(k) ==
    LET ix == build_index(payload)
    IN CASE k = 1 -> check_unique_assignment(ix, <<>>)
         [] k = 2 -> check_assignment_link_to_departure(ix, <<>>)
         [] k = 3 -> check_capacity(ix, <<>>)
         [] k = 4 -> check_wait_and_windows(ix, <<>>)
         [] k = 5 -> check_bus_flow(ix, <<>>)
         [] k = 6 -> check_objective(ix, <<>>)

\* C11: main runs the six checks in the order uniqueness, link, capacity,
\* wait/cutoff, bus flow, objective and never stops at the first violation: the
\* errors are the concatenation, in that order, of what every check reports, a
\* schedule breaking several checks gets a violation of each, and the verdict is
\* FAILED iff the list is non-empty
C11_AllChecksInOrder ==
    pc = "exit" =>
        /\ errors = CheckAlone(1) \o CheckAlone(2) \o CheckAlone(3)
                      \o CheckAlone(4) \o CheckAlone(5) \o CheckAlone(6)
        /\ \A i, j \in 1..Len(errors) :
              i < j => CheckRank(errors[i].tag) <= CheckRank(errors[j].tag)
        /\ \A k \in 1..6 :
              CheckAlone(k) # <<>> =>
                 \E i \in 1..Len(errors) : CheckRank(errors[i].tag) = k
        /\ verdict \in {"FAILED", "PASSED"}
        /\ verdict = "FAILED" <=> errors # <<>>

\* a schedule that breaks all six checks gets a violation of each
C11_Witness ==
    /\ pc = "exit"
    /\ verdict = "FAILED"
    /\ \A k \in 1..6 : \E i \in 1..Len(errors) : CheckRank(errors[i].tag) = k

\* C12: the checks only read: a step of main's checks leaves the payload and the
\* index built from it as they were, and a run of check_case leaves the result
\* under test as it was
C12_ChecksOnlyRead ==
    [][/\ pc = "indexed" => (payload' = payload /\ idx' = idx)
       /\ pc' \in {"returned", "raised"} => payload' = payload]_vars

(***************************************************************************)
(* SpecMalformed: result files with top-level fields left out, or with a   *)
(* departure of a bus that initial_positions does not list, or at a slot   *)
(* after T_end.  Bus 0 starts at CEI, passenger 0 arrives there at slot 1, *)
(* the horizon is 3 and tau is 1.                                          *)
(***************************************************************************)

RequiredFields == {"meta", "arrivals", "initial_positions", "departures", "assignments"}

\* a bus initial_positions does not list
UNLISTED_BUS == 7

\* a slot after T_end
SLOT_AFTER_END == 9

MalformedDepartures ==
    {<<>>,
     <<Dep("CEI", 0, 1)>>,
     <<Dep("CEI", UNLISTED_BUS, 1)>>,
     <<Dep("CEI", 0, SLOT_AFTER_END)>>}

MalformedAssignments ==
    {<<>>,
     <<[terminal |-> "CEI", p |-> 0, bus |-> 0, t |-> 1, wait |-> 0]>>,
     <<[terminal |-> "CEI", p |-> 0, bus |-> UNLISTED_BUS, t |-> 1, wait |-> 0]>>}

InitMalformed ==
    /\ pc = "build"
    /\ \E deps \in MalformedDepartures, asg \in MalformedAssignments :
         payload = [EmptyPayload(1, 1, 1, 3) EXCEPT
                      !.arrivals = [term \in Terminals |->
                                      IF term = "CEI" THEN <<[p |-> 0, arr |-> 1]>>
                                      ELSE <<>>],
                      !.initial_positions = <<[bus |-> 0, terminal |-> "CEI"]>>,
                      !.departures = deps,
                      !.assignments = asg]
    /\ expected = [EmptyExpected(1, 1, 1, 3) EXCEPT
                      !.init = <<[bus |-> 0, terminal |-> "CEI"]>>]
    /\ idx = <<>>
    /\ errors = <<>>
    /\ verdict = ""
    /\ case_errors = <<>>
    /\ NoSolverModel

\* the result file is written without the field f
OmitField(f) ==
    /\ pc = "build"
    /\ f \in DOMAIN payload
    /\ payload' = [g \in DOMAIN payload \ {f} |-> payload[g]]
    /\ UNCHANGED <<expected, pc, idx, errors, verdict, case_errors,
                 cfg, data, prob>>

NextMalformed ==
    \/ \E f \in RequiredFields : OmitField(f)
    \/ BuildIndex
    \/ RunChecks
    \/ CheckCase

SpecMalformed == InitMalformed /\ [][NextMalformed]_vars

(***************************************************************************)
(* Properties of malformed results (C13).                                  *)
(***************************************************************************)

LacksField == \E f \in RequiredFields : f \notin DOMAIN payload

\* the value of a field of the result, what when the field is absent
FieldOr(f, what) == IF f \in DOMAIN payload THEN payload[f] ELSE what

ListedBuses ==
    {FieldOr("initial_positions", <<>>)[i].bus :
        i \in 1..Len(FieldOr("initial_positions", <<>>))}

\* a departure or an assignment of a bus that is not listed, from a terminal
\* other than CEI and T2, or at a slot outside 0..T_end
OutsideInstance(rec) ==
    \/ rec.bus \notin ListedBuses
    \/ rec.terminal \notin {"CEI", "T2"}
    \/ "meta" \in DOMAIN payload /\ rec.t \notin 0..payload.meta.T_end

ForeignReference ==
    \/ \E i \in 1..Len(FieldOr("departures", <<>>)) :
          OutsideInstance(FieldOr("departures", <<>>)[i])
    \/ \E i \in 1..Len(FieldOr("assignments", <<>>)) :
          OutsideInstance(FieldOr("assignments", <<>>)[i])

PassVerdict ==
    \/ pc = "exit" /\ verdict = "PASSED"
    \/ pc = "returned" /\ case_errors = <<>>

\* C13: a result that lacks a required field, or whose departures or
\* assignments refer to a bus, terminal or slot outside the declared instance,
\* never ends with a PASS verdict
C13_MalformedNeverPasses ==
    (LacksField \/ ForeignReference) => ~PassVerdict

\* test.py aborts in build_index on every result that lacks a required field
C13_MainAbortsOnMissingField ==
    LacksField => pc \notin {"indexed", "exit"}

(***************************************************************************)
(* SpecMapping: a reference that assigns the labels "a" and "b" at CEI or  *)
(* T2, and a result that assigns the passengers 2 and 10 (as text, "10"    *)
(* sorts before "2").  Two seats per bus, no departures on either side.    *)
(***************************************************************************)

RefAsg(term, lab, t) == [terminal |-> term, p |-> lab, bus |-> 0, t |-> t]

ReferenceAssignments ==
    {<<RefAsg("CEI", LABEL_A, 0), RefAsg("CEI", LABEL_B, 0)>>,
     <<RefAsg("CEI", LABEL_B, 0), RefAsg("CEI", LABEL_A, 0)>>,
     <<RefAsg("CEI", LABEL_A, 0), RefAsg("CEI", LABEL_B, 1)>>,
     <<RefAsg("CEI", LABEL_A, 0), RefAsg("T2", LABEL_B, 0)>>,
     <<RefAsg("CEI", LABEL_A, 0), RefAsg("CEI", LABEL_A, 1)>>}

PassengerIds == {2, 10}

InitMapping ==
    /\ pc = "build"
    /\ payload = [EmptyPayload(0, 2, 3, 5) EXCEPT
                    !.arrivals = [term \in Terminals |->
                                    <<[p |-> 2, arr |-> 0], [p |-> 10, arr |-> 0]>>]]
    /\ \E asg \in ReferenceAssignments :
         expected = [EmptyExpected(0, 2, 3, 5) EXCEPT
                       !.arrivals = [term \in Terminals |->
                                       <<(<<LABEL_A, 0>>), (<<LABEL_B, 0>>)>>],
                       !.expected_assignments = asg]
    /\ idx = <<>>
    /\ errors = <<>>
    /\ verdict = ""
    /\ case_errors = <<>>
    /\ NoSolverModel

NextMapping ==
    \/ \E term \in Terminals, p \in PassengerIds, t \in {0, 1} : AddAssignment(term, p, 0, t, t)
    \/ BuildIndex
    \/ RunChecks
    \/ CheckCase

SpecMapping == InitMapping /\ [][NextMapping]_vars

(***************************************************************************)
(* Properties of build_label_mapping (C14, C15).                           *)
(***************************************************************************)

KeyOf(rec) == <<rec.terminal, rec.bus, rec.t>>

\* the (terminal, bus, t) groups of the reference or of the result
GroupKeys ==
    {KeyOf(expected.expected_assignments[i]) : i \in 1..Len(expected.expected_assignments)}
        \cup {KeyOf(payload.assignments[i]) : i \in 1..Len(payload.assignments)}

\* the labels the reference lists in group g, and the ids (as text) the result lists
RefLabels(g) ==
    LET pos == PositionsUpTo(Len(expected.expected_assignments),
                             LAMBDA i : KeyOf(expected.expected_assignments[i]) = g)
    IN [k \in 1..Len(pos) |-> expected.expected_assignments[pos[k]].p]

GotIds(g) ==
    LET pos == PositionsUpTo(Len(payload.assignments),
                             LAMBDA i : KeyOf(payload.assignments[i]) = g)
    IN [k \in 1..Len(pos) |-> Digits(payload.assignments[pos[k]].p)]

SizesDiffer(g) == Len(RefLabels(g)) # Len(GotIds(g))

InSeq(x, seq) == \E k \in 1..Len(seq) : seq[k] = x

\* what build_label_mapping returns for the reference and the result at hand
MappingAtHand == build_label_mapping(index_expected(expected), index_payload(payload))

CountReported(g) ==
    Cardinality({k \in 1..Len(case_errors) :
                    /\ case_errors[k].tag = "[ASSIGN-COUNT]"
                    /\ case_errors[k].term = g[1] /\ case_errors[k].bus = g[2]
                    /\ case_errors[k].t = g[3]
                    /\ case_errors[k].x = Len(RefLabels(g))
                    /\ case_errors[k].y = Len(GotIds(g))})

Compared == pc = "returned" /\ ~expected.infeasible

Ascending(seq) ==
    CHOOSE T \in [1..Len(seq) -> {seq[k] : k \in 1..Len(seq)}] :
        /\ \A v \in {seq[k] : k \in 1..Len(seq)} :
              Cardinality({k \in 1..Len(seq) : T[k] = v})
                 = Cardinality({k \in 1..Len(seq) : seq[k] = v})
        /\ \A i, j \in 1..Len(seq) : i < j => ~LexLess(T[j], T[i])

\* the pairs (label, id) the groups of equal sizes ask for: the k-th smallest
\* label of a group with the k-th smallest id of the same group
WouldPair ==
    UNION {{<<Ascending(RefLabels(g))[k], Ascending(GotIds(g))[k]>> :
               k \in 1..Len(RefLabels(g))} :
           g \in {h \in GroupKeys : ~SizesDiffer(h)}}

DictPairs(d) == {<<d[k][1], d[k][2]>> : k \in 1..Len(d)}

NoMappingError == ~HasTag(case_errors, "[ASSIGN-COUNT]") /\ ~HasTag(case_errors, "[MAP]")

\* some label, or some id, is asked to take two different partners
PartnerConflict ==
    \E q, r \in WouldPair : \/ q[1] = r[1] /\ q[2] # r[2]
                            \/ q[2] = r[2] /\ q[1] # r[1]

AssignedLabels ==
    {expected.expected_assignments[i].p : i \in 1..Len(expected.expected_assignments)}

AssignedIds == {Digits(payload.assignments[i].p) : i \in 1..Len(payload.assignments)}

\* C15: when build_label_mapping reports no error, mapping and inverse are
\* mutually inverse bijections between the labels the reference assigns and the
\* ids the result assigns, pairing in each group the k-th smallest label with
\* the k-th smallest id; and when a label or an id would take two different
\* partners across groups, [MAP] is reported
C15_MappingBijection ==
    Compared =>
        /\ NoMappingError =>
             /\ DictPairs(MappingAtHand.mapping) = WouldPair
             /\ DictPairs(MappingAtHand.inverse) = {<<q[2], q[1]>> : q \in WouldPair}
             /\ \A q, r \in WouldPair : (q[1] = r[1]) <=> (q[2] = r[2])
             /\ {q[1] : q \in WouldPair} = AssignedLabels
             /\ {q[2] : q \in WouldPair} = AssignedIds
             /\ Len(MappingAtHand.mapping) = Cardinality(AssignedLabels)
             /\ Len(MappingAtHand.inverse) = Cardinality(AssignedIds)
        /\ PartnerConflict => HasTag(case_errors, "[MAP]")

\* one group of two: "a" is paired with "10" and "b" with "2"
C15_Witness ==
    /\ Compared
    /\ NoMappingError
    /\ DictPairs(MappingAtHand.mapping)
         = {<<LABEL_A, Digits(10)>>, <<LABEL_B, Digits(2)>>}

(***************************************************************************)
(* The constraint builders of src/python.                                  *)
(*                                                                         *)
(* cfg holds the configuration (EVBusConfig, or the parameter block of a   *)
(* script), data the passenger instance, and prob the values the solver    *)
(* has fixed so far: ba, ba_r, bd and bd_r map each bus to the sequence of *)
(* its indicator values for slots 0, 1, ..., and x_A and x_B are the sets  *)
(* of boarding variables (passenger, bus, slot) whose value is 1.  All     *)
(* builders are taken with STEP_MIN = 1, so minutes and slots coincide.    *)
(***************************************************************************)
\* M, the big-M of the scripts.
BIG_M == 10000

\* An Optional value: None, or Some(v).
None == <<>>
Some(v) == <<v>>
Bit == {0, 1}

\* The bus indices of a builder: range(BN) in EVBusModel, B = [1] in
\* bus_test.py; example_cuda.py has one unindexed bus, numbered 1 here.
BusIds(c) == IF c.variant = "EVBusModel" THEN 0..(c.BN - 1) ELSE {1}

\* T_slots / T_list / T: the slots 0 .. NT-1.
T_slots(c) == 0..(c.NT - 1)

\* The value of an indicator variable at (b, t).
Val(v, b, t) == v[b][t + 1]

\* sum(...) of a set of (passenger, bus, slot) keys weighted by the slot.
RECURSIVE SumSlots(_)
SumSlots(S) ==
    IF S = {} THEN 0
    ELSE LET k == CHOOSE e \in S : TRUE IN k[3] + SumSlots(S \ {k})

\* ev_bus_refactored_1.py: allowed_times and EVBusModel.cutoff.
allowed_times(arrival_slot, cutoff) == arrival_slot..(cutoff - 1)
cutoff(c) == c.NT - c.tau

\* example_cuda.py: allowed_CEI_times / allowed_CRBT2_times.
allowed_CEI_times(c, arrival) ==
    LET last == c.NT - 1
        upper == IF arrival + c.wmax < last THEN arrival + c.wmax ELSE last
    IN {t \in T_slots(c) : t >= arrival /\ t <= upper}

\* power_gpt5pro.py: T_dep, the slots without the last tau ones, and its
\* allowed_CEI_times / allowed_CRBT2_times, which draw from T_dep.
T_dep(c) == IF c.tau > 0 THEN 0..(c.NT - 1 - c.tau) ELSE T_slots(c)
allowed_T_dep_times(c, arrival) ==
    IF T_dep(c) = {} THEN {}
    ELSE LET last == IF c.tau > 0 THEN c.NT - 1 - c.tau ELSE c.NT - 1
             hi == IF arrival + c.wmax < last THEN arrival + c.wmax ELSE last
         IN {t \in T_dep(c) : t >= arrival /\ t <= hi}

\* The boarding variables each builder creates for one terminal.
x_keys(c, P, arr) ==
    CASE c.variant = "EVBusModel" ->
           UNION {{<<i, b, t>> : b \in BusIds(c),
                                 t \in allowed_times(arr[i], cutoff(c))} : i \in P}
      [] c.variant = "bus_test" -> P \X BusIds(c) \X T_slots(c)
      [] c.variant = "power_gpt5pro" ->
           UNION {{<<i, b, t>> : b \in BusIds(c),
                                 t \in allowed_T_dep_times(c, arr[i])} : i \in P}
      [] OTHER ->
           UNION {{<<i, b, t>> : b \in BusIds(c),
                                 t \in allowed_CEI_times(c, arr[i])} : i \in P}
x_A_keys(c, d) == x_keys(c, d.P_A, d.arr_A)
x_B_keys(c, d) == x_keys(c, d.P_B, d.arr_B)

\* The variables of one passenger, and those of them set to 1.
KeysOfPassenger(keys, i) == {k \in keys : k[1] = i}
\* terms: the variables present at (b, t); sum(terms): how many are 1.
terms(keys, b, t) == {k \in keys : k[2] = b /\ k[3] = t}
sum_terms(x, b, t) == Cardinality({k \in x : k[2] = b /\ k[3] = t})

(***************************************************************************)
(* Constraints on the indicator variables.                                 *)
(***************************************************************************)
F7_depart_if_avail_A(s, b, t) == Val(s.bd, b, t) <= Val(s.ba, b, t)
F8_depart_if_avail_B(s, b, t) == Val(s.bd_r, b, t) <= Val(s.ba_r, b, t)
M2_one_depart_per_bus(s, b, t) == Val(s.bd, b, t) + Val(s.bd_r, b, t) <= 1
M3_dropped(s, b, t) == TRUE
M3_single_location(s, b, t) == Val(s.ba, b, t) + Val(s.ba_r, b, t) <= 1

\* EVBusModel: Flow_A[b,t] and Flow_B[b,t], added for t in range(NT-1).
Flow_A(s, b, t, tau) ==
    LET inbound_from_B == IF t - tau >= 0 THEN Val(s.bd_r, b, t - tau) ELSE 0
    IN Val(s.ba, b, t + 1) = Val(s.ba, b, t) - Val(s.bd, b, t) + inbound_from_B
Flow_B(s, b, t, tau) ==
    LET inbound_from_A == IF t - tau >= 0 THEN Val(s.bd, b, t - tau) ELSE 0
    IN Val(s.ba_r, b, t + 1) =
           Val(s.ba_r, b, t) - Val(s.bd_r, b, t) + inbound_from_A

\* The scripts: the flow equality added for slot index k >= 1.
flow_A(s, c, k, tau_slots) ==
    IF k - tau_slots >= 0
    THEN Val(s.ba, c, k) = Val(s.ba, c, k - 1) - Val(s.bd, c, k - 1)
                              + Val(s.bd_r, c, k - tau_slots)
    ELSE Val(s.ba, c, k) = Val(s.ba, c, k - 1) - Val(s.bd, c, k - 1)
flow_B(s, c, k, tau_slots) ==
    IF k - tau_slots >= 0
    THEN Val(s.ba_r, c, k) = Val(s.ba_r, c, k - 1) - Val(s.bd_r, c, k - 1)
                                + Val(s.bd, c, k - tau_slots)
    ELSE Val(s.ba_r, c, k) = Val(s.ba_r, c, k - 1) - Val(s.bd_r, c, k - 1)

\* The scripts: F11, the bus starts at exactly one terminal.
F11_initial_loc(s, c) == Val(s.ba, c, 0) + Val(s.ba_r, c, 0) = 1

\* EVBusModel: F15, how many buses start at each terminal.
RECURSIVE SumAtZero(_, _)
SumAtZero(v, bs) ==
    IF bs = {} THEN 0
    ELSE LET b == CHOOSE e \in bs : TRUE IN Val(v, b, 0) + SumAtZero(v, bs \ {b})
F15_initial_location(s, c) ==
    IF c.INITIAL_AT_A = None
    THEN /\ SumAtZero(s.ba, BusIds(c)) = c.BN
         /\ SumAtZero(s.ba_r, BusIds(c)) = 0
    ELSE LET k == c.INITIAL_AT_A[1]
         IN /\ SumAtZero(s.ba, BusIds(c)) = k
            /\ SumAtZero(s.ba_r, BusIds(c)) = c.BN - k

\* EVBusModel.solve: the optional placement of each bus, added to F15.
Init_at(s, c, b) ==
    IF c.start_at_A = None THEN TRUE
    ELSE IF b \in c.start_at_A[1]
         THEN Val(s.ba, b, 0) = 1 /\ Val(s.ba_r, b, 0) = 0
         ELSE Val(s.ba, b, 0) = 0 /\ Val(s.ba_r, b, 0) = 1

\* The scripts: the last tau slots, T[-TAU_SLOTS:].
last_idx(c) ==
    IF c.tau > 0
    THEN (IF c.NT - c.tau > 0 THEN c.NT - c.tau ELSE 0)..(c.NT - 1)
    ELSE {}

\* power_gpt5pro.py: no bus departs in the last tau slots.
Z_no_depart_late(c, s, b, t) ==
    t \in last_idx(c) => Val(s.bd, b, t) = 0 /\ Val(s.bd_r, b, t) = 0

\* Every constraint on the indicators whose latest slot is t.
SlotConstraints(c, s, t) ==
    IF c.variant = "EVBusModel"
    THEN /\ \A b \in BusIds(c) :
               /\ F7_depart_if_avail_A(s, b, t)
               /\ F8_depart_if_avail_B(s, b, t)
               /\ M2_one_depart_per_bus(s, b, t)
               /\ M3_single_location(s, b, t)
               /\ t >= 1 => Flow_A(s, b, t - 1, c.tau) /\ Flow_B(s, b, t - 1, c.tau)
               /\ t = 0 => Init_at(s, c, b)
         /\ t = 0 => F15_initial_location(s, c)
    ELSE \A b \in BusIds(c) :
               /\ F7_depart_if_avail_A(s, b, t)
               /\ F8_depart_if_avail_B(s, b, t)
               /\ M3_single_location(s, b, t)
               /\ t = 0 => F11_initial_loc(s, b)
               /\ t >= 1 => flow_A(s, b, t, c.tau) /\ flow_B(s, b, t, c.tau)
               /\ c.variant = "power_gpt5pro" =>
                      /\ M2_one_depart_per_bus(s, b, t)
                      /\ Z_no_depart_late(c, s, b, t)

(***************************************************************************)
(* Constraints on the boarding variables.  keys are the variables the      *)
(* builder created for the terminal, x those of them whose value is 1, and *)
(* dep the departure indicator of the terminal (bd or bd_r).               *)
(***************************************************************************)
\* F1 / F4 (m.assign in bus_test.py): the passenger's variables sum to 1.
F1_assign(x, i) == Cardinality(KeysOfPassenger(x, i)) = 1

\* EVBusModel F2 / F5: any boarding implies a departure; F3 / F6: capacity.
\* Both are added only where some boarding variable exists.
F2_link_ungated(c, keys, x, dep, b, t) ==
    terms(keys, b, t) # {} => sum_terms(x, b, t) <= c.CAPACITY
F2_link(c, keys, x, dep, b, t) ==
    terms(keys, b, t) # {} => sum_terms(x, b, t) <= c.CAPACITY * Val(dep, b, t)
F3_uncapped(c, keys, x, b, t) == TRUE
F3_cap(c, keys, x, b, t) ==
    terms(keys, b, t) # {} => sum_terms(x, b, t) <= c.CAPACITY

\* power_gpt5pro.py F2 / F5: boarding only where the bus departs, with the
\* big-M of the script, added for the slots of T_dep that have a variable.
F2_board_if_depart(c, keys, x, dep, b, t) ==
    terms(keys, b, t) # {} => sum_terms(x, b, t) <= BIG_M * Val(dep, b, t)

\* The scripts: m.cap / cap_CEI, cap_B, capacity linked to the departure.
m_cap(c, x, dep, b, t) == sum_terms(x, b, t) <= c.CAPACITY * Val(dep, b, t)

\* EVBusModel F10 / F13: no boarding in the slots cutoff .. NT-1.
F10_no_board_late(c, keys, x, b) ==
    \A t \in cutoff(c)..(c.NT - 1) :
        terms(keys, b, t) # {} => sum_terms(x, b, t) = 0

\* The scripts: F10 / F13, no boarding in the last tau slots.
late_forbid(c, x) == \A k \in x : k[3] \notin last_idx(c)

\* EVBusModel T1 / T2 with T3 / T4: Dep is the chosen slot (the sum of
\* t * x) and Dep - arr <= wmax; the waiting variable s >= Dep - arr,
\* s >= 0 then always has a value.
T3_wait_cap(c, x, i, arr) == SumSlots(KeysOfPassenger(x, i)) - arr[i] <= c.wmax

\* The scripts: Dep >= t - M * (1 - x) for every variable of the passenger,
\* s >= Dep - arr, s <= w_max, with Dep and s non-negative reals: some
\* value of Dep and s satisfies them.
wait_def_cap(c, x, i, arr) ==
    \E Dep_i \in 0..c.NT : \E sv \in 0..c.wmax :
        /\ \A k \in KeysOfPassenger(x, i) : Dep_i >= k[3]
        /\ sv >= Dep_i - arr[i]

\* Every constraint on the boarding variables of one terminal, for the
\* passengers the solver has fixed so far.
TerminalConstraints(c, keys, x, dep, fixed, arr, const_false) ==
    IF c.variant = "EVBusModel"
    THEN /\ \A i \in fixed :
               /\ (KeysOfPassenger(keys, i) = {} /\ const_false = "dropped")
                      \/ F1_assign(x, i)
               /\ T3_wait_cap(c, x, i, arr)
         /\ \A b \in BusIds(c) :
               /\ \A t \in T_slots(c) :
                     /\ F2_link(c, keys, x, dep, b, t)
                     /\ F3_cap(c, keys, x, b, t)
               /\ F10_no_board_late(c, keys, x, b)
    ELSE IF c.variant = "power_gpt5pro"
    THEN /\ \A i \in fixed :
               /\ (KeysOfPassenger(keys, i) = {} /\ const_false = "dropped")
                      \/ F1_assign(x, i)
               /\ wait_def_cap(c, x, i, arr)
         /\ \A b \in BusIds(c) : \A t \in T_dep(c) :
               /\ F2_board_if_depart(c, keys, x, dep, b, t)
               /\ F3_cap(c, keys, x, b, t)
         /\ late_forbid(c, x)
    ELSE /\ \A i \in fixed :
               /\ F1_assign(x, i)
               /\ wait_def_cap(c, x, i, arr)
         /\ \A b \in BusIds(c) : \A t \in T_slots(c) : m_cap(c, x, dep, b, t)
         /\ late_forbid(c, x)

(***************************************************************************)
(* Building and solving.                                                   *)
(***************************************************************************)
\* A passenger of EVBusModel whose allowed_times is empty: its F1 / F4 is
\* the Python expression  sum(()) == 1,  the constant False.  In
\* power_gpt5pro.py sum_vars of no variable is None, and  None == 1  is the
\* constant False as well.
HasConstantFalse(c, d) ==
    /\ c.variant \in {"EVBusModel", "power_gpt5pro"}
    /\ \/ \E i \in d.P_A : KeysOfPassenger(x_A_keys(c, d), i) = {}
       \/ \E j \in d.P_B : KeysOfPassenger(x_B_keys(c, d), j) = {}

\* The problem right after the builder ran: no variable has a value yet.
NewProblem(c, const_false) ==
    [ba |-> [b \in BusIds(c) |-> <<>>], ba_r |-> [b \in BusIds(c) |-> <<>>],
     bd |-> [b \in BusIds(c) |-> <<>>], bd_r |-> [b \in BusIds(c) |-> <<>>],
     x_A |-> {}, x_B |-> {}, fixed_A |-> {}, fixed_B |-> {},
     Dep_A |-> <<>>, Dep_B |-> <<>>, s_A |-> <<>>, s_B |-> <<>>,
     const_false |-> const_false]

\* The number of slots whose indicators are fixed.
SlotsFixed(s, c) == Len(s.ba[CHOOSE b \in BusIds(c) : TRUE])

\* EVBusModel.__init__ / the top level of a script down to the objective.
\* cuOpt is not part of the repository: what Problem.addConstraint does
\* with the constant False is any of rejecting it, keeping it as an
\* unsatisfiable row, or dropping it.
BuildModel ==
    /\ pc = "config"
    /\ IF HasConstantFalse(cfg, data)
       THEN \E outcome \in {"raise", "infeasible", "dropped"} :
                IF outcome = "raise"
                THEN pc' = "raised" /\ UNCHANGED prob
                ELSE pc' = "built" /\ prob' = NewProblem(cfg, outcome)
       ELSE pc' = "built" /\ prob' = NewProblem(cfg, "none")
    /\ UNCHANGED <<payload, expected, idx, errors, verdict, case_errors,
                   cfg, data>>

\* EVBusModel.solve / prob.solve(settings) / solver.solve(m): the solver
\* is invoked.
Solve ==
    /\ pc = "built"
    /\ pc' = "solving"
    /\ UNCHANGED <<payload, expected, idx, errors, verdict, case_errors,
                   cfg, data, prob>>

\* The solver fixes the four indicators of every bus for the next slot.
FixSlot ==
    /\ pc = "solving"
    /\ prob.const_false # "infeasible"
    /\ SlotsFixed(prob, cfg) < cfg.NT
    /\ \E v \in [BusIds(cfg) -> [ba : Bit, ba_r : Bit, bd : Bit, bd_r : Bit]] :
          LET s == [prob EXCEPT
                      !.ba = [b \in BusIds(cfg) |-> Append(@[b], v[b].ba)],
                      !.ba_r = [b \in BusIds(cfg) |-> Append(@[b], v[b].ba_r)],
                      !.bd = [b \in BusIds(cfg) |-> Append(@[b], v[b].bd)],
                      !.bd_r = [b \in BusIds(cfg) |-> Append(@[b], v[b].bd_r)]]
          IN /\ SlotConstraints(cfg, s, SlotsFixed(prob, cfg))
             /\ prob' = s
    /\ UNCHANGED <<payload, expected, pc, idx, errors, verdict, case_errors,
                   cfg, data>>

\* The least element of a non-empty set of passenger ids.
FirstOf(S) == CHOOSE i \in S : \A j \in S : i <= j

\* The solver fixes the boarding variables of the next passenger of A.
Board_A ==
    /\ pc = "solving"
    /\ SlotsFixed(prob, cfg) = cfg.NT
    /\ data.P_A \ prob.fixed_A # {}
    /\ LET i == FirstOf(data.P_A \ prob.fixed_A)
           keys == x_A_keys(cfg, data)
       IN \E S \in SUBSET KeysOfPassenger(keys, i) :
             LET x == prob.x_A \cup S
                 fixed == prob.fixed_A \cup {i}
             IN /\ TerminalConstraints(cfg, keys, x, prob.bd, fixed,
                                       data.arr_A, prob.const_false)
                /\ prob' = [prob EXCEPT !.x_A = x, !.fixed_A = fixed]
    /\ UNCHANGED <<payload, expected, pc, idx, errors, verdict, case_errors,
                   cfg, data>>

\* The solver fixes the boarding variables of the next passenger of B.
Board_B ==
    /\ pc = "solving"
    /\ SlotsFixed(prob, cfg) = cfg.NT
    /\ data.P_A \ prob.fixed_A = {}
    /\ data.P_B \ prob.fixed_B # {}
    /\ LET j == FirstOf(data.P_B \ prob.fixed_B)
           keys == x_B_keys(cfg, data)
       IN \E S \in SUBSET KeysOfPassenger(keys, j) :
             LET x == prob.x_B \cup S
                 fixed == prob.fixed_B \cup {j}
             IN /\ TerminalConstraints(cfg, keys, x, prob.bd_r, fixed,
                                       data.arr_B, prob.const_false)
                /\ prob' = [prob EXCEPT !.x_B = x, !.fixed_B = fixed]
    /\ UNCHANGED <<payload, expected, pc, idx, errors, verdict, case_errors,
                   cfg, data>>

\* Every variable has a value and every constraint holds: the solver
\* returns this assignment as a feasible solution.
ReturnSolution ==
    /\ pc = "solving"
    /\ SlotsFixed(prob, cfg) = cfg.NT
    /\ prob.fixed_A = data.P_A
    /\ prob.fixed_B = data.P_B
    /\ pc' = "solved"
    /\ UNCHANGED <<payload, expected, idx, errors, verdict, case_errors,
                   cfg, data, prob>>

(***************************************************************************)
(* The continuous variables Dep and s of every passenger.  Their values    *)
(* are drawn from 0 .. MaxCont; the builders bound them below by 0 and     *)
(* above by 10000 (EVBusModel._cont) or not at all (the scripts).          *)
(***************************************************************************)
MaxCont == 6

\* EVBusModel T1 / T2: Dep == sum of t * x over the passenger's variables.
T1_dep_def(x, i, Dep_v) == Dep_v[i] = SumSlots(KeysOfPassenger(x, i))
\* EVBusModel T3 / T4: Dep - arr <= wmax.
T3_wait_upper(c, arr, i, Dep_v) == Dep_v[i] - arr[i] <= c.wmax
\* EVBusModel Wait_def_A / Wait_def_B and the scripts' F14_wait_def:
\* s >= Dep - arr.
Wait_def(arr, i, Dep_v, s_v) == s_v[i] >= Dep_v[i] - arr[i]
\* The scripts' T1_link / T2_link: Dep >= t - M * (1 - x) for every
\* variable of the passenger, chosen (x = 1) or not (x = 0).
T1_link(keys, x, i, Dep_v) ==
    \A k \in KeysOfPassenger(keys, i) :
        Dep_v[i] >= k[3] - BIG_M * (1 - (IF k \in x THEN 1 ELSE 0))
\* The scripts' F15_wait_cap: s <= w_max.
F15_wait_cap(c, i, s_v) == s_v[i] <= c.wmax

\* Every constraint on the continuous variables of one terminal.
ContinuousConstraints(c, keys, x, P, arr, Dep_v, s_v) ==
    \A i \in P :
        IF c.variant = "EVBusModel"
        THEN /\ T1_dep_def(x, i, Dep_v)
             /\ T3_wait_upper(c, arr, i, Dep_v)
             /\ Wait_def(arr, i, Dep_v, s_v)
        ELSE /\ T1_link(keys, x, i, Dep_v)
             /\ Wait_def(arr, i, Dep_v, s_v)
             /\ F15_wait_cap(c, i, s_v)

\* The solver returns a feasible solution together with the values of its
\* continuous variables.
ReturnValues ==
    /\ pc = "solving"
    /\ SlotsFixed(prob, cfg) = cfg.NT
    /\ prob.fixed_A = data.P_A
    /\ prob.fixed_B = data.P_B
    /\ \E Dep_a \in [data.P_A -> 0..MaxCont], s_a \in [data.P_A -> 0..MaxCont],
          Dep_b \in [data.P_B -> 0..MaxCont], s_b \in [data.P_B -> 0..MaxCont] :
          /\ ContinuousConstraints(cfg, x_A_keys(cfg, data), prob.x_A,
                                   data.P_A, data.arr_A, Dep_a, s_a)
          /\ ContinuousConstraints(cfg, x_B_keys(cfg, data), prob.x_B,
                                   data.P_B, data.arr_B, Dep_b, s_b)
          /\ prob' = [prob EXCEPT !.Dep_A = Dep_a, !.s_A = s_a,
                                  !.Dep_B = Dep_b, !.s_B = s_b]
    /\ pc' = "solved"
    /\ UNCHANGED <<payload, expected, idx, errors, verdict, case_errors,
                   cfg, data>>

(***************************************************************************)
(* Instances.  Every instance has the five slots 0 .. 4, so the horizon    *)
(* (the last slot) is 4.                                                   *)
(***************************************************************************)
\* EVBusConfig with its derived NT, tau and wmax, and the start_at_A
\* argument of solve.
EVBusConfig(NT, tau, CAPACITY, wmax, BN, INITIAL_AT_A, start_at_A) ==
    [variant |-> "EVBusModel", NT |-> NT, tau |-> tau, CAPACITY |-> CAPACITY,
     wmax |-> wmax, BN |-> BN, INITIAL_AT_A |-> INITIAL_AT_A,
     start_at_A |-> start_at_A]

\* The parameter block of bus_test.py, example_cuda.py or power_gpt5pro.py.
ScriptConfig(variant, NT, tau_slots, c_max, w_max) ==
    [variant |-> variant, NT |-> NT, tau |-> tau_slots, CAPACITY |-> c_max,
     wmax |-> w_max, BN |-> 1, INITIAL_AT_A |-> None, start_at_A |-> None]

\* Instance: the passengers of each terminal and their arrival slots.
Instance(P_A, P_B, arr_A, arr_B) ==
    [P_A |-> P_A, P_B |-> P_B, arr_A |-> arr_A, arr_B |-> arr_B]

ModelTaus == {0, 1, 2}
Scripts == {"bus_test", "example_cuda", "power_gpt5pro"}
TAU_BEYOND_HORIZON == 6

\* Two buses and no passenger: the indicator constraints alone.
FleetConfigs ==
    {EVBusConfig(5, tau, 1, 4, 2, k, None) : tau \in ModelTaus, k \in {None, Some(1)}}
      \cup {EVBusConfig(5, tau, 1, 4, 2, Some(1), Some({1})) : tau \in ModelTaus}
      \cup {ScriptConfig(v, 5, tau, 1, 4) :
                v \in Scripts, tau \in ModelTaus}
NoPassengers == Instance({}, {}, <<>>, <<>>)

\* One bus, or two buses with one slot of travel, and two passengers at A
\* and one at B.
BoardingConfigs ==
    {EVBusConfig(5, tau, cap, 4, 1, None, None) :
         tau \in ModelTaus \cup {TAU_BEYOND_HORIZON}, cap \in {1, 2}}
      \cup {EVBusConfig(5, 1, 1, 4, 2, None, None)}
      \cup {ScriptConfig(v, 5, tau, cap, 4) :
                v \in Scripts,
                tau \in ModelTaus \cup {TAU_BEYOND_HORIZON}, cap \in {1, 2}}
BoardingInstances ==
    {Instance({1, 2}, {1}, [i \in {1, 2} |-> a], [j \in {1} |-> r]) :
         a \in {1, 4}, r \in {2}}

InitModel ==
    /\ \/ cfg \in FleetConfigs /\ data = NoPassengers
       \/ cfg \in BoardingConfigs /\ data \in BoardingInstances
    /\ prob = <<>>
    /\ pc = "config"
    /\ payload = <<>>
    /\ expected = <<>>
    /\ idx = <<>>
    /\ errors = <<>>
    /\ verdict = ""
    /\ case_errors = <<>>

NextModel ==
    \/ BuildModel
    \/ Solve
    \/ FixSlot
    \/ Board_A
    \/ Board_B
    \/ ReturnSolution

SpecModel == InitModel /\ [][NextModel]_vars

\* One bus, one slot of travel, at most two slots of waiting, one passenger
\* at each terminal: the solutions with the values of Dep and s.
WaitConfigs ==
    {EVBusConfig(5, 1, 1, 2, 1, None, None)}
      \cup {ScriptConfig(v, 5, 1, 1, 2) : v \in Scripts}
WaitInstances ==
    {Instance({1}, {1}, [i \in {1} |-> a], [j \in {1} |-> r]) :
         a \in {0, 1}, r \in {2}}

InitValues ==
    /\ cfg \in WaitConfigs
    /\ data \in WaitInstances
    /\ prob = <<>>
    /\ pc = "config"
    /\ payload = <<>>
    /\ expected = <<>>
    /\ idx = <<>>
    /\ errors = <<>>
    /\ verdict = ""
    /\ case_errors = <<>>

NextValues ==
    \/ BuildModel
    \/ Solve
    \/ FixSlot
    \/ Board_A
    \/ Board_B
    \/ ReturnValues

SpecValues == InitValues /\ [][NextValues]_vars

(***************************************************************************)
(* Claims about the constraint model.  A state with pc = "solved" holds a  *)
(* feasible solution; the definitions below read its values directly.      *)
(***************************************************************************)
ModelBuses == DOMAIN prob.ba
ModelSlots == 0..(cfg.NT - 1)
OppositeTerminal(X) == IF X = "A" THEN "B" ELSE "A"
AvailableAt(X, b, t) == IF X = "A" THEN prob.ba[b][t + 1] ELSE prob.ba_r[b][t + 1]
DepartsFrom(X, b, t) == IF X = "A" THEN prob.bd[b][t + 1] ELSE prob.bd_r[b][t + 1]

\* What the claim says of one departure of bus b from X at slot t, with
\* the arrival taking `lag` slots.
TravelsFor(lag, X, b, t) ==
    /\ t + lag \in ModelSlots => AvailableAt(OppositeTerminal(X), b, t + lag) = 1
    /\ \A u \in {v \in ModelSlots : t < v /\ v < t + lag} :
          /\ AvailableAt("A", b, u) = 0
          /\ AvailableAt("B", b, u) = 0
          /\ DepartsFrom("A", b, u) = 0
          /\ DepartsFrom("B", b, u) = 0

\* C16: in every assignment of the availability and departure indicators
\* that satisfies the flow-conservation, initial-location,
\* depart-only-if-available and single-location constraints, a bus that
\* departs terminal X at slot t is available at the opposite terminal at
\* slot t + tau (when that slot is within the horizon), is available at
\* neither terminal strictly between t and t + tau, and does not depart
\* again before t + tau; for every model variant.  (Taken for tau >= 1:
\* with tau = 0 the slot t + tau is the departure slot itself.)
C16_AvailableAfterTau ==
    (pc = "solved" /\ cfg.tau >= 1) =>
        \A b \in ModelBuses : \A X \in {"A", "B"} : \A t \in ModelSlots :
            DepartsFrom(X, b, t) = 1 => TravelsFor(cfg.tau, X, b, t)

\* The same statement restricted to the single-bus scripts, which holds.
C16_ScriptsAvailableAfterTau ==
    (pc = "solved" /\ cfg.tau >= 1 /\ cfg.variant # "EVBusModel") =>
        \A b \in ModelBuses : \A X \in {"A", "B"} : \A t \in ModelSlots :
            DepartsFrom(X, b, t) = 1 => TravelsFor(cfg.tau, X, b, t)

\* What EVBusModel does instead: the bus is available at the opposite
\* terminal one slot later, at t + tau + 1, and at neither terminal in
\* the slots t + 1 .. t + tau.
C16_EVBusModelAvailableOneLater ==
    (pc = "solved" /\ cfg.variant = "EVBusModel") =>
        \A b \in ModelBuses : \A X \in {"A", "B"} : \A t \in ModelSlots :
            DepartsFrom(X, b, t) = 1 => TravelsFor(cfg.tau + 1, X, b, t)

\* A solution of a script in which a bus departs and the arrival slot
\* t + tau is within the horizon.
C16_ScriptDepartureReached ==
    /\ pc = "solved" /\ cfg.tau >= 1 /\ cfg.variant # "EVBusModel"
    /\ \E b \in ModelBuses : \E t \in ModelSlots :
          DepartsFrom("A", b, t) = 1 /\ t + cfg.tau \in ModelSlots

\* C17: in every feasible solution, for every bus and every slot, the bus
\* departs from a terminal only if it is available there in that slot, it
\* is never available at both terminals in the same slot, and it never
\* departs from both terminals in the same slot.
C17_DepartWhereAvailable ==
    pc = "solved" =>
        \A b \in ModelBuses : \A t \in ModelSlots :
            /\ \A X \in {"A", "B"} :
                  DepartsFrom(X, b, t) = 1 => AvailableAt(X, b, t) = 1
            /\ ~(AvailableAt("A", b, t) = 1 /\ AvailableAt("B", b, t) = 1)
            /\ ~(DepartsFrom("A", b, t) = 1 /\ DepartsFrom("B", b, t) = 1)

\* A feasible solution with passengers in which one bus departs from A and
\* later from B.
C17_Witness ==
    /\ pc = "solved"
    /\ data.P_A # {}
    /\ \E b \in ModelBuses : \E t, u \in ModelSlots :
          t < u /\ DepartsFrom("A", b, t) = 1 /\ DepartsFrom("B", b, u) = 1

\* The number of passengers of terminal X assigned to board bus b at slot t.
Boarded(X, b, t) ==
    Cardinality({k \in (IF X = "A" THEN prob.x_A ELSE prob.x_B) :
                     k[2] = b /\ k[3] = t})

\* C18: in every feasible solution, for every (bus, terminal, slot) the
\* number of passengers assigned to board there is at most the bus
\* capacity, and it is 0 unless that bus departs from that terminal in that
\* slot.
C18_BoardingWithinCapacity ==
    pc = "solved" =>
        \A b \in ModelBuses : \A X \in {"A", "B"} : \A t \in ModelSlots :
            /\ Boarded(X, b, t) <= cfg.CAPACITY
            /\ DepartsFrom(X, b, t) = 0 => Boarded(X, b, t) = 0

\* A feasible solution in which a departure from A is full with two
\* passengers and a passenger boards at B.
C18_Witness ==
    /\ pc = "solved"
    /\ cfg.CAPACITY = 2
    /\ \E b \in ModelBuses : \E t \in ModelSlots : Boarded("A", b, t) = 2
    /\ \E b \in ModelBuses : \E t \in ModelSlots : Boarded("B", b, t) = 1

\* The horizon is the last slot, and the late-boarding cutoff is tau slots
\* before it.
Horizon == cfg.NT - 1
LastBoardingSlot == Horizon - cfg.tau
\* The boardings of a solution: (terminal, passenger, slot, arrival).
Boardings ==
    {[terminal |-> "A", p |-> k[1], t |-> k[3], arr |-> data.arr_A[k[1]]] :
         k \in prob.x_A}
      \cup {[terminal |-> "B", p |-> k[1], t |-> k[3], arr |-> data.arr_B[k[1]]] :
                k \in prob.x_B}

\* C19: for every passenger the model allows boarding exactly in the slots
\* t with arrival <= t <= cutoff, where cutoff = horizon - tau (every slot
\* from the arrival to the horizon when tau = 0): no feasible solution
\* boards a passenger before its arrival or after the cutoff.
C19_BoardingWindow ==
    pc = "solved" =>
        \A e \in Boardings : e.arr <= e.t /\ e.t <= LastBoardingSlot

\* The part of C19 that holds in every builder: no boarding after the
\* cutoff.
C19_NoBoardingAfterCutoff ==
    pc = "solved" => \A e \in Boardings : e.t <= LastBoardingSlot

\* C19 holds in the builders that create the boarding variables from the
\* arrival on (all but bus_test.py), and in EVBusModel the
\* variables of a passenger are exactly those of the slots
\* arrival .. cutoff.
C19_WindowWherePruned ==
    /\ (pc = "solved" /\ cfg.variant # "bus_test") =>
           \A e \in Boardings : e.arr <= e.t /\ e.t <= LastBoardingSlot
    /\ (pc \in {"built", "solving", "solved"} /\ cfg.variant = "EVBusModel") =>
           \A i \in data.P_A : \A b \in ModelBuses :
               {k[3] : k \in {e \in x_A_keys(cfg, data) : e[1] = i /\ e[2] = b}}
                   = data.arr_A[i]..LastBoardingSlot

\* A solution that boards a passenger exactly at the cutoff, with tau >= 1
\* and with tau = 0.
C19_BoardsAtCutoff ==
    /\ pc = "solved" /\ cfg.tau >= 1
    /\ \E e \in Boardings : e.t = LastBoardingSlot /\ e.arr < e.t
C19_BoardsAtHorizon ==
    /\ pc = "solved" /\ cfg.tau = 0
    /\ \E e \in Boardings : e.t = Horizon

\* Some passenger's boarding range [arrival, cutoff] is empty.
RangeEmpty ==
    \/ \E i \in data.P_A : data.arr_A[i] > LastBoardingSlot
    \/ \E j \in data.P_B : data.arr_B[j] > LastBoardingSlot

\* C20: if some passenger's allowed boarding range [arrival, cutoff] is
\* empty, building the model fails with a structural error before any
\* solver is invoked: the model is never built and the solver is never
\* called for such an instance.
C20_EmptyRangeFailsBeforeSolve ==
    RangeEmpty => pc \in {"config", "raised"}

\* A script with an empty range reaches the solver call: the builder of
\* example_cuda.py has no statement that can fail on it.
C20_ScriptReachesSolver ==
    /\ RangeEmpty
    /\ cfg.variant = "example_cuda"
    /\ pc = "solving"

\* What holds instead in EVBusModel, example_cuda.py and power_gpt5pro.py:
\* unless the library drops the constant constraint, no solution is returned for such
\* an instance (the solver finds the model infeasible).  bus_test.py
\* returns solutions for it, boarding the passenger before its arrival.
C20_EmptyRangeHasNoSolution ==
    (RangeEmpty /\ pc = "solved" /\ cfg.variant # "bus_test")
        => prob.const_false = "dropped"

(***************************************************************************)
(* C21: the derived departure time and the wait of a passenger.            *)
(***************************************************************************)
\* The slot at which passenger i of a terminal boards in a solution with
\* boarding variables X (the passenger boards once: F1 / F4).
BoardingSlot(X, i) == (CHOOSE k \in X : k[1] = i)[3]
BoardsOnce(X, i) == Cardinality({k \in X : k[1] = i}) = 1

\* C21: in every feasible solution, optimal or not, the departure-time
\* variable of each passenger equals the single slot at which the passenger
\* boards, and the passenger's wait variable is at most w_max.
C21_DepIsBoardingSlotAndWaitCapped ==
    pc = "solved" =>
        /\ \A i \in data.P_A :
               /\ BoardsOnce(prob.x_A, i)
               /\ prob.Dep_A[i] = BoardingSlot(prob.x_A, i)
               /\ prob.s_A[i] <= cfg.wmax
        /\ \A j \in data.P_B :
               /\ BoardsOnce(prob.x_B, j)
               /\ prob.Dep_B[j] = BoardingSlot(prob.x_B, j)
               /\ prob.s_B[j] <= cfg.wmax

\* What the builders do guarantee.  EVBusModel: Dep is the boarding slot,
\* and the wait variable is at least Dep - arr, which is at most w_max.
\* The scripts: the wait variable is at most w_max, and Dep is at least the
\* boarding slot and at most arr + w_max.
C21_WhatTheBuildersBound ==
    pc = "solved" =>
        /\ \A i \in data.P_A :
               /\ BoardsOnce(prob.x_A, i)
               /\ prob.s_A[i] >= prob.Dep_A[i] - data.arr_A[i]
               /\ IF cfg.variant = "EVBusModel"
                  THEN /\ prob.Dep_A[i] = BoardingSlot(prob.x_A, i)
                       /\ prob.Dep_A[i] - data.arr_A[i] <= cfg.wmax
                  ELSE /\ prob.Dep_A[i] >= BoardingSlot(prob.x_A, i)
                       /\ prob.s_A[i] <= cfg.wmax
        /\ \A j \in data.P_B :
               /\ BoardsOnce(prob.x_B, j)
               /\ prob.s_B[j] >= prob.Dep_B[j] - data.arr_B[j]
               /\ IF cfg.variant = "EVBusModel"
                  THEN /\ prob.Dep_B[j] = BoardingSlot(prob.x_B, j)
                       /\ prob.Dep_B[j] - data.arr_B[j] <= cfg.wmax
                  ELSE /\ prob.Dep_B[j] >= BoardingSlot(prob.x_B, j)
                       /\ prob.s_B[j] <= cfg.wmax

\* A feasible solution of EVBusModel whose wait variable exceeds w_max.
C21_EVBusModelWaitAboveCap ==
    /\ pc = "solved" /\ cfg.variant = "EVBusModel"
    /\ \E i \in data.P_A : prob.s_A[i] > cfg.wmax
\* A feasible solution of bus_test.py whose Dep is later than the boarding
\* slot.
C21_ScriptDepAfterBoardingSlot ==
    /\ pc = "solved" /\ cfg.variant = "bus_test"
    /\ \E i \in data.P_A : /\ BoardsOnce(prob.x_A, i)
                           /\ prob.Dep_A[i] > BoardingSlot(prob.x_A, i)

(***************************************************************************)
(* C22: two passengers of one terminal with the same arrival, capacity 1.  *)
(***************************************************************************)
\* The instance of the claim: capacity 1 and two passengers of A that arrive
\* in the same slot.
TwoAtOnce(i, j) ==
    /\ cfg.CAPACITY = 1
    /\ i \in data.P_A /\ j \in data.P_A /\ i # j
    /\ data.arr_A[i] = data.arr_A[j]

\* C22 as stated: with capacity 1 and two passengers of the same terminal
\* and arrival slot, every feasible solution boards the two at two distinct
\* departure times.
C22_DistinctDepartureTimes ==
    pc = "solved" =>
        \A i, j \in data.P_A : TwoAtOnce(i, j) =>
            \A k1, k2 \in prob.x_A :
                (k1[1] = i /\ k2[1] = j) => k1[3] # k2[3]

\* C22, amended: with capacity 1 and two passengers of the same terminal and
\* arrival slot, no feasible solution assigns both to the same departure
\* event (the same bus in the same slot); when the fleet is a single bus the
\* two board at two distinct departure times.
C22_DistinctDepartureEvents ==
    pc = "solved" =>
        \A i, j \in data.P_A : TwoAtOnce(i, j) =>
            \A k1, k2 \in prob.x_A :
                (k1[1] = i /\ k2[1] = j) =>
                    /\ <<k1[2], k1[3]>> # <<k2[2], k2[3]>>
                    /\ cfg.BN = 1 => k1[3] # k2[3]

\* A feasible solution of such an instance in which both passengers board,
\* on a single bus.
C22_Witness ==
    /\ pc = "solved"
    /\ cfg.BN = 1
    /\ TwoAtOnce(1, 2)
    /\ \E k1, k2 \in prob.x_A : k1[1] = 1 /\ k2[1] = 2

\* A feasible solution of EVBusModel with two buses in which the two
\* passengers leave in the same slot, one on each bus.
C22_SameSlotOnTwoBuses ==
    /\ pc = "solved"
    /\ TwoAtOnce(1, 2)
    /\ \E k1, k2 \in prob.x_A :
          k1[1] = 1 /\ k2[1] = 2 /\ k1[3] = k2[3] /\ k1[2] # k2[2]

(***************************************************************************)
(* The squared-wait surrogate of one passenger: the lambda formulation of  *)
(* ev_bus_refactored_2.py and the secant epigraph of power_gpt5pro.py.     *)
(* cfg holds the builder and w_max, data the wait Dep - arr of the         *)
(* passenger in a schedule that the linear-objective model accepts, prob   *)
(* the breakpoints, the segments and the values the solver gives to s, to  *)
(* the lambdas (in units of 1 / LamUnits) and to q or z.                   *)
(***************************************************************************)
MaxWmax == 10
LamUnits == 5
PWL_STEP == 5
NUM_PWL_SEG == 6

\* Python round(n / d) for integers n >= 0, d > 0: to the nearest integer,
\* halves to the even one.
PyRound(n, d) ==
    LET f == n \div d
        r2 == 2 * (n % d)
    IN IF r2 < d THEN f
       ELSE IF r2 > d THEN f + 1
       ELSE IF f % 2 = 0 THEN f ELSE f + 1

\* sorted(set): the elements of a set of integers in ascending order.
RECURSIVE SortedSeqOf(_)
SortedSeqOf(S) ==
    IF S = {} THEN <<>>
    ELSE LET lo == CHOOSE a \in S : \A b \in S : a <= b
         IN <<lo>> \o SortedSeqOf(S \ {lo})

\* ev_bus_refactored_2.py: list(range(0, wmax + 1, step)).
pwl_square_breakpoints(wmax, step) ==
    SortedSeqOf({v \in 0..wmax : v % step = 0})

\* power_gpt5pro.py: bp, the rounded multiples of W / NUM_PWL_SEG with 0 and
\* W added at the ends when missing.
bp_rounded(W) ==
    LET b0 == SortedSeqOf({PyRound(k * W, NUM_PWL_SEG) : k \in 0..NUM_PWL_SEG})
        b1 == IF b0[1] # 0 THEN <<0>> \o b0 ELSE b0
    IN IF b1[Len(b1)] # W THEN Append(b1, W) ELSE b1

\* power_gpt5pro.py: segments, one secant (m, b) per consecutive pair of
\* breakpoints.
segments_sign_error(bp) ==
    [k \in 1..(Len(bp) - 1) |->
        [m |-> bp[k] + bp[k + 1], b |-> bp[k] * bp[k + 1]]]
segments(bp) ==
    LET all == [k \in 1..(Len(bp) - 1) |->
                   [m |-> bp[k] + bp[k + 1], b |-> 0 - bp[k] * bp[k + 1],
                    s0 |-> bp[k], s1 |-> bp[k + 1]]]
    IN SelectSeq(all, LAMBDA g : ~(g.s1 <= g.s0))

\* The builder: the breakpoints, and the segments of power_gpt5pro.py.
BuildSurrogate ==
    /\ pc = "config"
    /\ LET bp == IF cfg.variant = "ev_bus_refactored_2"
                 THEN pwl_square_breakpoints(cfg.wmax, PWL_STEP)
                 ELSE bp_rounded(cfg.wmax)
       IN prob' = [bp |-> bp,
                   segments |-> IF cfg.variant = "ev_bus_refactored_2"
                                THEN <<>> ELSE segments(bp),
                   s |-> 0, lam |-> <<>>, z |-> 0]
    /\ pc' = "built"
    /\ UNCHANGED <<payload, expected, idx, errors, verdict, case_errors,
                   cfg, data>>

\* ev_bus_refactored_2.py, in units of 1 / LamUnits: PWL_A_sumlam,
\* PWL_A_s_def and Wait_def_A for the weights lam; PWL_A_q_def gives q.
RECURSIVE WeightedSum(_, _, _)
WeightedSum(coef, lam, k) ==
    IF k = 0 THEN 0 ELSE coef[k] * lam[k] + WeightedSum(coef, lam, k - 1)
PWL_sumlam(lam) ==
    WeightedSum([k \in DOMAIN lam |-> 1], lam, Len(lam)) = LamUnits
PWL_s_def(bp, lam) == WeightedSum(bp, lam, Len(bp))
PWL_q_def(bp, lam) ==
    WeightedSum([k \in DOMAIN bp |-> bp[k] * bp[k]], lam, Len(bp))
LambdaFeasible(bp, lam, wait) ==
    /\ PWL_sumlam(lam)
    /\ PWL_s_def(bp, lam) >= wait * LamUnits

\* power_gpt5pro.py: T3_wait_def, T3_wait_cap and the epigraph PWL_A:
\* z >= m * s + b for every segment.
PWL_epigraph(segs, sv, z) ==
    \A k \in DOMAIN segs : z >= segs[k].m * sv + segs[k].b
EpigraphFeasible(c, segs, sv, z, wait) ==
    /\ sv >= wait
    /\ sv <= c.wmax
    /\ PWL_epigraph(segs, sv, z)

\* The solver gives values to the passenger's surrogate variables, or
\* finds that none exist.
SolveSurrogate ==
    /\ pc = "built"
    /\ IF cfg.variant = "ev_bus_refactored_2"
       THEN LET Lams == {lam \in [DOMAIN prob.bp -> 0..LamUnits] :
                           LambdaFeasible(prob.bp, lam, data.wait)}
            IN IF Lams = {}
               THEN pc' = "infeasible" /\ UNCHANGED prob
               ELSE /\ pc' = "solved"
                    /\ \E lam \in Lams :
                          prob' = [prob EXCEPT
                                     !.lam = lam,
                                     !.s = PWL_s_def(prob.bp, lam),
                                     !.z = PWL_q_def(prob.bp, lam)]
       ELSE LET Vals == {v \in (0..cfg.wmax) \X (0..(cfg.wmax * cfg.wmax)) :
                           EpigraphFeasible(cfg, prob.segments, v[1], v[2],
                                            data.wait)}
            IN IF Vals = {}
               THEN pc' = "infeasible" /\ UNCHANGED prob
               ELSE /\ pc' = "solved"
                    /\ \E v \in Vals :
                          prob' = [prob EXCEPT !.s = v[1], !.z = v[2]]
    /\ UNCHANGED <<payload, expected, idx, errors, verdict, case_errors,
                   cfg, data>>

InitSurrogate ==
    /\ cfg \in {[variant |-> v, wmax |-> W] :
                  v \in {"ev_bus_refactored_2", "power_gpt5pro"},
                  W \in 0..MaxWmax}
    /\ data \in {[wait |-> w] : w \in 0..cfg.wmax}
    /\ prob = <<>>
    /\ pc = "config"
    /\ payload = <<>>
    /\ expected = <<>>
    /\ idx = <<>>
    /\ errors = <<>>
    /\ verdict = ""
    /\ case_errors = <<>>

NextSurrogate ==
    \/ BuildSurrogate
    \/ SolveSurrogate

SpecSurrogate == InitSurrogate /\ [][NextSurrogate]_vars

(***************************************************************************)
(* C23: the breakpoints span the admissible waits.                         *)
(***************************************************************************)
SurrogateBuilt == pc \in {"built", "solved", "infeasible"}
FirstBreakpoint == prob.bp[1]
LastBreakpoint == prob.bp[Len(prob.bp)]

\* C23: for every w_max >= 1 the smallest breakpoint is 0 and the largest
\* is w_max, and a wait of at most w_max that the linear-objective model
\* accepts is feasible under the surrogate-objective model.
C23_BreakpointsSpanRange ==
    (SurrogateBuilt /\ cfg.wmax >= 1) =>
        /\ FirstBreakpoint = 0
        /\ LastBreakpoint = cfg.wmax
        /\ pc # "infeasible"

\* What holds: the breakpoints of power_gpt5pro.py span the range for every
\* w_max; those of ev_bus_refactored_2.py start at 0 and end at the largest
\* multiple of 5 not above w_max, and a wait is feasible exactly when it is
\* at most that multiple.
C23_SpanWhereItHolds ==
    SurrogateBuilt =>
        /\ FirstBreakpoint = 0
        /\ cfg.variant = "power_gpt5pro" =>
               LastBreakpoint = cfg.wmax /\ pc # "infeasible"
        /\ cfg.variant = "ev_bus_refactored_2" =>
               /\ LastBreakpoint = cfg.wmax - (cfg.wmax % 5)
               /\ pc = "infeasible" => data.wait > LastBreakpoint
               /\ pc = "solved" => data.wait <= LastBreakpoint

\* ev_bus_refactored_2.py with w_max = 4: a wait of 1 has no feasible
\* surrogate variables, the only breakpoint being 0.
C23_WaitNotRepresentable ==
    /\ pc = "infeasible"
    /\ cfg.variant = "ev_bus_refactored_2"
    /\ cfg.wmax = 4 /\ data.wait = 1
    /\ prob.bp = <<0>>

(***************************************************************************)
(* C24: the secant surrogate of the squared wait.                          *)
(***************************************************************************)
\* The least z >= 0 that satisfies the secant constraint of every segment
\* of the built model for the wait w.
LeastZ(w) ==
    LET lower == {0} \cup {prob.segments[k].m * w + prob.segments[k].b :
                               k \in DOMAIN prob.segments}
    IN CHOOSE z \in lower : \A y \in lower : y <= z
IsBreakpoint(w) == \E k \in DOMAIN prob.bp : prob.bp[k] = w

\* C24: over the breakpoints 0 = b_0 < ... < b_K = w_max, the least z >= 0
\* with z >= (b_k + b_k+1) * w - b_k * b_k+1 for every consecutive pair is
\* w^2 when the integer wait w is a breakpoint and at least w^2 for every
\* integer w in 0 .. w_max; so the z of a solution is never below the
\* square of its s.
C24_SecantNeverUnderestimates ==
    (SurrogateBuilt /\ cfg.variant = "power_gpt5pro") =>
        /\ \A w \in 0..cfg.wmax :
               /\ LeastZ(w) >= w * w
               /\ IsBreakpoint(w) => LeastZ(w) = w * w
        /\ pc = "solved" => prob.z >= prob.s * prob.s

\* A solution whose s lies strictly between two breakpoints and whose z is
\* the least one allowed, above the square of s.
C24_Witness ==
    /\ pc = "solved"
    /\ cfg.variant = "power_gpt5pro"
    /\ ~IsBreakpoint(prob.s)
    /\ prob.z = LeastZ(prob.s)
    /\ prob.z > prob.s * prob.s

(***************************************************************************)
(* C25: the state of the bus-flow simulation after a flagged departure.    *)
(***************************************************************************)
\* The violations a loop iteration appended, and whether one of them is an
\* in-transit or a location violation.
Appended(before, after) ==
    SubSeq(after.errors, Len(before.errors) + 1, Len(after.errors))
Flagged(before, after) ==
    \E k \in DOMAIN Appended(before, after) :
        Appended(before, after)[k].tag \in {"[FLOW]", "[F7/F8]", "[LOC]"}

\* check_flow just before and just after it processes the n-th departure.
CaseFlowBefore(n) ==
    flow_loop(flow_start(expected.init, <<>>), expected.meta.tau,
              SubSeq(sort_events(payload.departures), 1, n - 1))
CaseFlowAfter(n) ==
    flow_iter(CaseFlowBefore(n), expected.meta.tau,
              sort_events(payload.departures)[n])
\* check_bus_flow just before and just after it processes the n-th
\* departure of the i-th bus of dep_seq.
MainFlowBefore(i, n) ==
    LET seq == sort_tuples(idx.dep_seq[i][2])
    IN bus_flow_loop(bus_flow_start(idx, idx.dep_seq[i][1], seq, <<>>),
                     idx.dep_seq[i][1], idx.tau, SubSeq(seq, 1, n - 1))
MainFlowAfter(i, n) ==
    bus_flow_iter(MainFlowBefore(i, n), idx.dep_seq[i][1], idx.tau,
                  sort_tuples(idx.dep_seq[i][2])[n])

\* C25: in the bus-flow simulation of either verifier, a departure that is
\* flagged by the in-transit check or by the location check leaves
\* busy_until and current_terminal as they were for the following
\* departures of that bus; only a departure that passed both advances them.
C25_FlaggedDepartureLeavesState ==
    /\ pc = "returned" =>
          \A n \in 1..Len(payload.departures) :
              Flagged(CaseFlowBefore(n), CaseFlowAfter(n)) =>
                  /\ CaseFlowAfter(n).busy_until = CaseFlowBefore(n).busy_until
                  /\ CaseFlowAfter(n).cur_term = CaseFlowBefore(n).cur_term
    /\ pc = "exit" =>
          \A i \in 1..Len(idx.dep_seq) : \A n \in 1..Len(idx.dep_seq[i][2]) :
              Flagged(MainFlowBefore(i, n), MainFlowAfter(i, n)) =>
                  /\ MainFlowAfter(i, n).cur_free_time
                         = MainFlowBefore(i, n).cur_free_time
                  /\ MainFlowAfter(i, n).cur_term = MainFlowBefore(i, n).cur_term

\* What the verifiers do: every departure, flagged or not, sets busy_until
\* to t + tau and current_terminal to the terminal opposite to the one it
\* left.
C25_EveryDepartureAdvances ==
    /\ pc = "returned" =>
          \A n \in 1..Len(payload.departures) :
              LET d == sort_events(payload.departures)[n]
              IN /\ DictGet(CaseFlowAfter(n).busy_until, d.bus)
                        = d.t + expected.meta.tau
                 /\ DictGet(CaseFlowAfter(n).cur_term, d.bus) # d.terminal
    /\ pc = "exit" =>
          \A i \in 1..Len(idx.dep_seq) : \A n \in 1..Len(idx.dep_seq[i][2]) :
              LET d == sort_tuples(idx.dep_seq[i][2])[n]
              IN /\ MainFlowAfter(i, n).cur_free_time = d[1] + idx.tau
                 /\ MainFlowAfter(i, n).cur_term # d[2]

\* Bus 0 is configured at CEI, tau = 2.  It leaves T2 at slot 0, which is a
\* location violation, and CEI at slot 1: the second departure is reported
\* as in transit until slot 2, the flagged first one having advanced
\* busy_until.
C25_FlaggedDepartureAdvanced ==
    /\ pc = "returned"
    /\ expected.meta.tau = 2
    /\ ConfiguredInit(expected.init, 0) = "CEI"
    /\ Len(TimeOrdered(0)) = 2
    /\ TimeOrdered(0)[1].terminal = "T2" /\ TimeOrdered(0)[1].t = 0
    /\ TimeOrdered(0)[2].terminal = "CEI" /\ TimeOrdered(0)[2].t = 1
    /\ Len(ErrorsOf(case_errors, "[LOC]", 0)) = 1
    /\ Len(ErrorsOf(case_errors, "[FLOW]", 0)) = 1

(***************************************************************************)
(* The flow constraints of the builders against check_bus_flow.  A         *)
(* schedule of one bus over four slots is given as values of bd and bd_r;  *)
(* the solver looks for values of ba and ba_r that satisfy the builder's   *)
(* constraints with it, the departures are read off as chosen_departures   *)
(* does, and test.py checks them with the builder's tau and initial        *)
(* position.                                                               *)
(***************************************************************************)
\* The fleet configurations: one bus, slots 0 .. 3.  In EVBusModel the bus
\* starts at A (INITIAL_AT_A absent or 1) or at B (INITIAL_AT_A = 0); the
\* scripts leave the initial terminal to the solver.
ScheduleConfigs ==
    {EVBusConfig(4, tau, 1, 3, 1, k, None) :
         tau \in ModelTaus, k \in {None, Some(0), Some(1)}}
      \cup {ScriptConfig(v, 4, tau, 1, 3) : v \in Scripts, tau \in ModelTaus}

\* The values of bd and bd_r under test.
Schedules(c) ==
    {[bd |-> [b \in BusIds(c) |-> d], bd_r |-> [b \in BusIds(c) |-> r]] :
         d \in [1..c.NT -> Bit], r \in [1..c.NT -> Bit]}

\* The initial positions handed to the verifier: those the builder fixes.
initial_positions_of(c) ==
    IF c.variant # "EVBusModel" THEN <<>>
    ELSE [i \in 1..c.BN |->
            [bus |-> i - 1,
             terminal |-> IF c.INITIAL_AT_A = None \/ i - 1 < c.INITIAL_AT_A[1]
                          THEN "CEI" ELSE "T2"]]

\* Some values of ba and ba_r satisfy every constraint on the indicators
\* together with the given bd and bd_r.
Extends(c, sched) ==
    \E a \in [1..c.NT -> Bit], ar \in [1..c.NT -> Bit] :
        LET s == [ba |-> [b \in BusIds(c) |-> a], ba_r |-> [b \in BusIds(c) |-> ar],
                  bd |-> sched.bd, bd_r |-> sched.bd_r]
        IN \A t \in T_slots(c) : SlotConstraints(c, s, t)

\* The solver on the model with bd and bd_r fixed to the schedule.
ExtendSchedule ==
    /\ pc = "schedule"
    /\ prob' = [prob EXCEPT !.extends = IF Extends(cfg, prob) THEN "yes" ELSE "no"]
    /\ pc' = "extended"
    /\ UNCHANGED <<payload, expected, idx, errors, verdict, case_errors,
                   cfg, data>>

\* chosen_departures: the (b, t) with bd = 1, then those with bd_r = 1, as
\* departure events of the result payload.
RECURSIVE events_of(_, _, _, _)
events_of(v, term, b, n) ==
    IF n = 0 THEN <<>>
    ELSE events_of(v, term, b, n - 1)
           \o (IF v[b][n] = 1
               THEN <<[terminal |-> term, bus |-> b, t |-> n - 1]>>
               ELSE <<>>)
chosen_departures(c, sched) ==
    LET b == CHOOSE e \in BusIds(c) : TRUE
    IN events_of(sched.bd, "CEI", b, c.NT) \o events_of(sched.bd_r, "T2", b, c.NT)

ExtractDepartures ==
    /\ pc = "extended"
    /\ payload' = [payload EXCEPT !.departures = chosen_departures(cfg, prob)]
    /\ pc' = "build"
    /\ UNCHANGED <<expected, idx, errors, verdict, case_errors,
                   cfg, data, prob>>

InitSchedule ==
    /\ cfg \in ScheduleConfigs
    /\ data = NoPassengers
    /\ \E sched \in Schedules(cfg) :
          prob = [bd |-> sched.bd, bd_r |-> sched.bd_r, extends |-> "unknown"]
    /\ payload = [EmptyPayload(cfg.tau, cfg.CAPACITY, cfg.wmax, cfg.NT - 1)
                     EXCEPT !.initial_positions = initial_positions_of(cfg)]
    /\ pc = "schedule"
    /\ expected = <<>>
    /\ idx = <<>>
    /\ errors = <<>>
    /\ verdict = ""
    /\ case_errors = <<>>

NextSchedule ==
    \/ ExtendSchedule
    \/ ExtractDepartures
    \/ BuildIndex
    \/ RunChecks

SpecSchedule == InitSchedule /\ [][NextSchedule]_vars

(***************************************************************************)
(* C26: the builders and the verifier on the same departures.              *)
(***************************************************************************)
\* The bus-flow violations of the verifier's run.
BusFlowViolations ==
    SelectSeq(errors, LAMBDA e : e.tag \in {"[FLOW]", "[F7/F8]", "[M3]"})
\* The schedule has a departure from X at slot t.
Leaves(X, t) ==
    \E k \in DOMAIN payload.departures :
        payload.departures[k].terminal = X /\ payload.departures[k].t = t

\* C26: for the same tau and initial positions, a set of departure events
\* of a bus extends to a feasible assignment of the model's availability
\* and departure variables if and only if the verifier reports no FLOW,
\* location or same-instant violation for it.
C26_ModelAndVerifierAgree ==
    pc = "exit" => (prob.extends = "yes" <=> BusFlowViolations = <<>>)

\* The direction that holds: the departures of every feasible assignment
\* pass the bus-flow check.
C26_ModelSchedulesPass ==
    (pc = "exit" /\ prob.extends = "yes") => BusFlowViolations = <<>>

\* EVBusModel with tau = 1: the bus leaves CEI at slot 0 and T2 at slot 1,
\* exactly tau slots later.  The verifier accepts, the model has no
\* feasible assignment.
C26_ReturnAfterTauOnlyVerifier ==
    /\ pc = "exit"
    /\ cfg.variant = "EVBusModel" /\ cfg.tau = 1
    /\ Len(payload.departures) = 2
    /\ Leaves("CEI", 0) /\ Leaves("T2", 1)
    /\ BusFlowViolations = <<>>
    /\ prob.extends = "no"

\* The same schedule in bus_test.py: accepted by both.
C26_ReturnAfterTauBoth ==
    /\ pc = "exit"
    /\ cfg.variant = "bus_test" /\ cfg.tau = 1
    /\ Len(payload.departures) = 2
    /\ Leaves("CEI", 0) /\ Leaves("T2", 1)
    /\ BusFlowViolations = <<>>
    /\ prob.extends = "yes"

(***************************************************************************)
(* C27: bus conservation.                                                  *)
(***************************************************************************)
\* The departures of bus b made at least 1 and at most `most` slots before
\* slot t.
DeparturesWithin(most, b, t) ==
    {e \in {"A", "B"} \X ModelSlots :
        /\ DepartsFrom(e[1], b, e[2]) = 1
        /\ 1 <= t - e[2] /\ t - e[2] <= most}
Conserved(most, b, t) ==
    AvailableAt("A", b, t) + AvailableAt("B", b, t)
        + Cardinality(DeparturesWithin(most, b, t)) = 1

\* C27: in every feasible solution each bus is, at every slot, in exactly
\* one of three conditions: available at A, available at B, or in transit
\* from a departure made fewer than tau slots earlier; so
\* ba + ba_r + (departures still in transit) = 1 at every slot.
C27_BusConserved ==
    pc = "solved" =>
        \A b \in ModelBuses : \A t \in ModelSlots : Conserved(cfg.tau - 1, b, t)

\* Where it holds: in the scripts when the travel takes at least one slot.
C27_ConservedInScripts ==
    (pc = "solved" /\ cfg.variant # "EVBusModel" /\ cfg.tau >= 1) =>
        \A b \in ModelBuses : \A t \in ModelSlots : Conserved(cfg.tau - 1, b, t)

\* EVBusModel: the bus is away for one slot more, so it is conserved when
\* the departures made up to tau slots earlier count as in transit.
C27_EVBusModelConservedOneLater ==
    (pc = "solved" /\ cfg.variant = "EVBusModel") =>
        \A b \in ModelBuses : \A t \in ModelSlots : Conserved(cfg.tau, b, t)

\* EVBusModel with tau = 1: a bus that left at slot t is at neither
\* terminal at slot t + 1, where by the claim it has arrived.
C27_EVBusModelBusMissing ==
    /\ pc = "solved"
    /\ cfg.variant = "EVBusModel" /\ cfg.tau = 1
    /\ \E b \in ModelBuses : \E t \in ModelSlots :
          /\ t + 1 \in ModelSlots
          /\ DepartsFrom("A", b, t) = 1
          /\ AvailableAt("A", b, t + 1) + AvailableAt("B", b, t + 1) = 0

\* A script with tau = 0: the bus leaves at slot 0 and is at neither
\* terminal from slot 1 on.
C27_ScriptBusLost ==
    /\ pc = "solved"
    /\ cfg.variant # "EVBusModel" /\ cfg.tau = 0
    /\ \E b \in ModelBuses :
          /\ DepartsFrom("A", b, 0) + DepartsFrom("B", b, 0) = 1
          /\ \A t \in ModelSlots \ {0} :
                AvailableAt("A", b, t) + AvailableAt("B", b, t) = 0

(***************************************************************************)
(* C28: the listing order of departures and assignments.                   *)
(***************************************************************************)
\* The lists with the same records as seq in any order.
Reorderings(seq) ==
    {[i \in 1..Len(seq) |-> seq[f[i]]] :
        f \in {g \in [1..Len(seq) -> 1..Len(seq)] :
                  \A i, j \in 1..Len(seq) : g[i] = g[j] => i = j}}
\* The result payloads and the references that differ from the ones at
\* hand only in the listing order.
ReorderedPayloads ==
    {[payload EXCEPT !.departures = d, !.assignments = a] :
        d \in Reorderings(payload.departures),
        a \in Reorderings(payload.assignments)}
ReorderedReferences ==
    {[expected EXCEPT !.expected_departures = d, !.expected_assignments = a] :
        d \in Reorderings(expected.expected_departures),
        a \in Reorderings(expected.expected_assignments)}

\* C28: permuting the departures or the assignments of the result payload
\* or of the reference, with the same contents, never changes whether
\* check_case returns an empty violation list.
C28_VerdictIgnoresListingOrder ==
    pc = "returned" =>
        \A pl \in ReorderedPayloads : \A ex \in ReorderedReferences :
            (check_case(ex, pl) = <<>>) <=> (case_errors = <<>>)

\* What holds: the order in which the departures are listed, in the result
\* and in the reference, changes nothing in what check_case returns.
C28_DepartureOrderIrrelevant ==
    pc = "returned" =>
        \A d \in Reorderings(payload.departures) :
            \A e \in Reorderings(expected.expected_departures) :
                check_case([expected EXCEPT !.expected_departures = e],
                           [payload EXCEPT !.departures = d]) = case_errors

\* Two passengers board the same departure.  The result passes, and the
\* result that lists the same two assignments in the other order is
\* reported as an ASSIGNMENTS mismatch.
C28_GroupOrderChangesVerdict ==
    /\ pc = "returned"
    /\ case_errors = <<>>
    /\ Len(payload.assignments) = 2
    /\ KeyOf(payload.assignments[1]) = KeyOf(payload.assignments[2])
    /\ HasTag(check_case(expected,
                         [payload EXCEPT !.assignments =
                             <<payload.assignments[2], payload.assignments[1]>>]),
              "[ASSIGNMENTS]")

(***************************************************************************)
(* C29: relabelings that are one-to-one within each terminal.              *)
(***************************************************************************)
\* The renamings of the reference's labels to passenger ids that are
\* one-to-one at CEI and one-to-one at T2.
ReferenceLabels ==
    {expected.expected_assignments[i].p : i \in 1..Len(expected.expected_assignments)}
OneToOne ==
    {r \in [ReferenceLabels -> PassengerIds] :
        \A a, b \in ReferenceLabels : r[a] = r[b] => a = b}
Renamings == [Terminals -> OneToOne]

\* The boardings of the result, and those of the reference renamed by r.
ResultBoardings ==
    {<<payload.assignments[i].terminal, payload.assignments[i].p,
       payload.assignments[i].bus, payload.assignments[i].t>> :
        i \in 1..Len(payload.assignments)}
RenamedBoardings(r) ==
    {<<expected.expected_assignments[i].terminal,
       r[expected.expected_assignments[i].terminal][expected.expected_assignments[i].p],
       expected.expected_assignments[i].bus, expected.expected_assignments[i].t>> :
        i \in 1..Len(expected.expected_assignments)}
\* The result is the reference up to the renaming r.
RenamedReference(r) ==
    /\ Len(payload.assignments) = Len(expected.expected_assignments)
    /\ Cardinality(ResultBoardings) = Len(payload.assignments)
    /\ ResultBoardings = RenamedBoardings(r)

\* C29: if the actual schedule equals the reference up to a renaming of the
\* passengers that is one-to-one at CEI and one-to-one at T2, no [MAP] and
\* no [ASSIGN-COUNT] error is reported and check_case reports no
\* ASSIGNMENTS mismatch, also when the same label or id denotes different
\* passengers at the two terminals.
C29_PerTerminalRenamingAccepted ==
    (pc = "returned" /\ \E r \in Renamings : RenamedReference(r)) =>
        /\ ~HasTag(case_errors, "[MAP]")
        /\ ~HasTag(case_errors, "[ASSIGN-COUNT]")
        /\ ~HasTag(case_errors, "[ASSIGNMENTS]")

\* What holds: such a result never has an [ASSIGN-COUNT] error, and it has
\* no [MAP] error when no id and no label is used at both terminals.
C29_RenamingWithDistinctIds ==
    (pc = "returned" /\ \E r \in Renamings : RenamedReference(r)) =>
        /\ ~HasTag(case_errors, "[ASSIGN-COUNT]")
        /\ (/\ \A e1, e2 \in ResultBoardings : e1[2] = e2[2] => e1[1] = e2[1]
            /\ \A i, j \in 1..Len(expected.expected_assignments) :
                  expected.expected_assignments[i].p = expected.expected_assignments[j].p
                      => expected.expected_assignments[i].terminal
                             = expected.expected_assignments[j].terminal)
              => ~HasTag(case_errors, "[MAP]")

\* The reference boards label a at CEI and label b at T2; the result boards
\* passenger 2 of CEI and passenger 2 of T2, two different passengers with
\* the same id: a [MAP] error is reported.
C29_SameIdAtBothTerminals ==
    /\ pc = "returned"
    /\ \E r \in Renamings : RenamedReference(r)
    /\ ResultBoardings = {<<"CEI", 2, 0, 0>>, <<"T2", 2, 0, 0>>}
    /\ HasTag(case_errors, "[MAP]")

\* Both boardings are at CEI in the same group and the renaming is
\* one-to-one, yet an ASSIGNMENTS mismatch is reported.
C29_OneGroupMismatch ==
    /\ pc = "returned"
    /\ \E r \in Renamings : RenamedReference(r)
    /\ Len(payload.assignments) = 2
    /\ KeyOf(payload.assignments[1]) = KeyOf(payload.assignments[2])
    /\ ~HasTag(case_errors, "[MAP]")
    /\ HasTag(case_errors, "[ASSIGNMENTS]")

(***************************************************************************)
(* src/run_case_2.py: the parallel sweep.  pc is the position of the main  *)
(* thread; prob holds the executor of the current batch (its futures, its  *)
(* work queue, the cases its worker threads are running), the solver       *)
(* processes, the result of every finished future and what main has        *)
(* counted.  The worker threads and the solver processes take their steps  *)
(* in any order between the steps of main.                                 *)
(***************************************************************************)
NumCases == 6
MAX_WORKERS == 4
BATCH_SIZE == 4
AllCases == 1..NumCases

\* chunked(seq, n): the slice seq[i : i + n] that starts at the (1-based)
\* position i.
chunked_with_next(total, n, i) ==
    {c \in 1..total : i <= c /\ c <= i + n}
chunked(total, n, i) ==
    {c \in 1..total : i <= c /\ c < i + n}

InitSweep ==
    /\ pc = "for batch"
    /\ prob = [next |-> 1, batch |-> {}, futures |-> {}, queue |-> <<>>,
               running |-> {}, procs |-> {},
               result |-> [c \in AllCases |-> "pending"],
               yielded |-> {},
               submitted |-> [c \in AllCases |-> 0],
               runs |-> [c \in AllCases |-> 0],
               failures |-> <<>>, pbar |-> 0]
    /\ cfg = <<>>
    /\ data = <<>>
    /\ payload = <<>>
    /\ expected = <<>>
    /\ idx = <<>>
    /\ errors = <<>>
    /\ verdict = ""
    /\ case_errors = <<>>

\* for batch in chunked(all_cases, batch_size): a new executor for the next
\* batch, or the end of the loop and the report.
NextBatch ==
    /\ pc = "for batch"
    /\ IF prob.next > NumCases
       THEN pc' = "done" /\ UNCHANGED prob
       ELSE /\ pc' = "submit"
            /\ prob' = [prob EXCEPT
                           !.batch = chunked(NumCases, BATCH_SIZE, prob.next),
                           !.next = prob.next + BATCH_SIZE,
                           !.futures = {}, !.queue = <<>>, !.yielded = {}]
    /\ UNCHANGED <<payload, expected, idx, errors, verdict, case_errors,
                   cfg, data>>

\* ex.submit(execute_case, case) for the next case of the batch.
Submit ==
    /\ pc = "submit"
    /\ LET todo == prob.batch \ prob.futures
           c == CHOOSE a \in todo : \A b \in todo : a <= b
       IN /\ todo # {}
          /\ prob' = [prob EXCEPT !.futures = @ \cup {c},
                                  !.queue = Append(@, c),
                                  !.submitted[c] = @ + 1]
          /\ pc' = IF todo = {c} THEN "as_completed" ELSE "submit"
    /\ UNCHANGED <<payload, expected, idx, errors, verdict, case_errors,
                   cfg, data>>

\* A worker thread takes the next work item and calls execute_case: the
\* case file is missing (FileNotFoundError), or the solver process starts.
StartCase ==
    /\ pc \in {"submit", "as_completed"}
    /\ prob.queue # <<>>
    /\ Cardinality(prob.running) < MAX_WORKERS
    /\ LET c == Head(prob.queue)
       IN \E exists \in BOOLEAN :
             prob' = IF exists
                     THEN [prob EXCEPT !.queue = Tail(@), !.runs[c] = @ + 1,
                                       !.running = @ \cup {c},
                                       !.procs = @ \cup {c}]
                     ELSE [prob EXCEPT !.queue = Tail(@), !.runs[c] = @ + 1,
                                       !.result[c] = "FileNotFoundError"]
    /\ UNCHANGED <<payload, expected, pc, idx, errors, verdict, case_errors,
                   cfg, data>>

\* The solver process of a case exits, with status 0 or not
\* (check=True: CalledProcessError), and execute_case returns or raises.
FinishCase ==
    /\ pc \in {"submit", "as_completed"}
    /\ \E c \in prob.procs : \E r \in {"returned", "CalledProcessError"} :
          prob' = [prob EXCEPT !.procs = @ \ {c}, !.running = @ \ {c},
                               !.result[c] = r]
    /\ UNCHANGED <<payload, expected, pc, idx, errors, verdict, case_errors,
                   cfg, data>>

\* One iteration of  for fut in as_completed(future_to_case):  a finished
\* future is yielded, its failure is recorded, the progress bar advances.
AsCompleted ==
    /\ pc = "as_completed"
    /\ \E c \in prob.futures \ prob.yielded :
          /\ prob.result[c] # "pending"
          /\ prob' = [prob EXCEPT
                         !.yielded = @ \cup {c},
                         !.failures = IF prob.result[c] = "returned" THEN @
                                      ELSE Append(@, <<c, prob.result[c]>>),
                         !.pbar = @ + 1]
    /\ UNCHANGED <<payload, expected, pc, idx, errors, verdict, case_errors,
                   cfg, data>>

\* Every future was yielded: the with block of the executor exits
\* (shutdown(wait=True)) and the loop goes on to the next batch.
ShutdownPool ==
    /\ pc = "as_completed"
    /\ prob.yielded = prob.futures
    /\ prob.running = {}
    /\ pc' = "for batch"
    /\ UNCHANGED <<payload, expected, idx, errors, verdict, case_errors,
                   cfg, data, prob>>

NextSweep ==
    \/ NextBatch
    \/ Submit
    \/ StartCase
    \/ FinishCase
    \/ AsCompleted
    \/ ShutdownPool

SpecSweep == InitSweep /\ [][NextSweep]_vars

(***************************************************************************)
(* C30: the sweep under every interleaving.                                *)
(***************************************************************************)
\* The cases whose run failed, and how often a case is listed in failures.
FailedCases ==
    {c \in AllCases : prob.result[c] \in {"FileNotFoundError", "CalledProcessError"}}
TimesRecorded(c) ==
    Cardinality({k \in DOMAIN prob.failures : prob.failures[k][1] = c})
\* The cases of the batches before the one of case c (batches of four).
EarlierBatches(c) == {d \in AllCases : (d - 1) \div 4 < (c - 1) \div 4}

\* C30: under every interleaving of the worker threads each case is
\* submitted and run exactly once, at most 4 solver processes run at the
\* same time, a batch starts only after every case of the previous batch
\* has finished, a case whose run fails is recorded exactly once in
\* failures without preventing any other case from running, and when main
\* returns the progress count equals the number of cases.
C30_EachCaseOnceInBatchesOfFour ==
    /\ \A c \in AllCases :
          /\ prob.submitted[c] <= 1 /\ prob.runs[c] <= 1
          /\ prob.runs[c] <= prob.submitted[c]
          /\ TimesRecorded(c) <= 1
          /\ TimesRecorded(c) = 1 => c \in FailedCases
          /\ prob.submitted[c] = 1 =>
                \A d \in EarlierBatches(c) : prob.result[d] # "pending"
    /\ Cardinality(prob.procs) <= 4
    /\ pc = "done" =>
          /\ \A c \in AllCases :
                /\ prob.submitted[c] = 1 /\ prob.runs[c] = 1
                /\ prob.result[c] # "pending"
                /\ TimesRecorded(c) = IF c \in FailedCases THEN 1 ELSE 0
          /\ prob.pbar = NumCases

\* main has returned from a sweep of more than one batch in which a case
\* of the first batch failed and later cases ran and succeeded.
C30_Witness ==
    /\ pc = "done"
    /\ NumCases > 4
    /\ prob.result[1] = "CalledProcessError"
    /\ prob.result[2] = "FileNotFoundError"
    /\ prob.result[NumCases] = "returned"
    /\ Len(prob.failures) = 2

\* Four solver processes run at the same time.
C30_FourProcessesAtOnce == Cardinality(prob.procs) = 4

====
